---- MODULE Spec2Model ----
(***************************************************************************)
(* Model of the Figma extraction services:                                 *)
(*   FigmaService.extractComponents / extractStyles                        *)
(*   ProjectExtractionService.extractFileComponents / generateCode /       *)
(*   processFile / extractProject                                          *)
(* JavaScript values are tagged records so that values of different        *)
(* JavaScript types can be compared: undefined, null, numbers and strings  *)
(* carry a field t, arrays are [t |-> "array", items |-> <<...>>]; objects  *)
(* are records of their own fields.                                        *)
(***************************************************************************)
EXTENDS Integers, Sequences, FiniteSets, TLC

VARIABLES
    fileData,      \* extractComponents / extractStyles: the argument (response.data of getFile)
    components,    \* extractComponents: the closure's flat array `components`
    returned,      \* extractComponents: what the call produced (value or exception)
    inputNode,     \* traverse: the node whose properties are extracted
    properties,    \* traverse: component.properties of that node
    styles,        \* extractStyles: the three buckets returned
    componentsData,  \* extractFileComponents / processFile: componentsData
    maxComponents,   \* extractFileComponents: the limit
    limited,         \* extractFileComponents: componentsData after the limiting step
    params,          \* extractProject: {fileKey, teamId, projectId, frameworks, options}
    pc,              \* extractProject: the await the call is suspended at
    files,           \* extractProject: the resolved files
    projectName,     \* extractProject: projectName
    outputDir,       \* extractProject: the directory created, null before
    outputFiles,     \* extractProject: the manifest
    totalComponentsExtracted,
    fileIdx,         \* extractProject: position of the for loop over files
    generatedCode,   \* generateCode: the mapping framework -> slot
    fwIdx,           \* generateCode: position of the for loop over frameworks
    fileSpec,        \* processFile: the file specification built
    disk,            \* the files written under the output directory, path -> content
    outcome,         \* extractProject: what the call produced (value or exception)
    attempts,        \* history: the generation attempts of the current generateCode call
    observed,        \* history: per file handled, what went wrong in it
    calls,           \* history: the external calls issued, each settled or in flight
    request,         \* the request as received: its entry point and its body
    responseText,    \* parseResponse: the argument (the completion text)
    parsed,          \* parseResponse: what the call returned
    store,           \* GeneratedCodeRepository: database/generated-code.json
    clock,           \* the time new Date() gives
    client,          \* GeneratedCodeRepository: per caller, the call it runs and where it stands
    initially        \* history: the records of the store when the calls began

treeVars == <<fileData, components, returned>>
propVars == <<inputNode, properties>>
parseVars == <<responseText, parsed>>
repoVars == <<store, clock, client, initially>>
styleVars == <<styles>>
limitVars == <<componentsData, maxComponents, limited>>
genVars == <<generatedCode, fwIdx, attempts>>
projVars == <<params, pc, files, projectName, outputDir, outputFiles,
              totalComponentsExtracted, fileIdx, fileSpec, disk, outcome, observed, calls, request>>
vars == <<treeVars, propVars, parseVars, repoVars, styleVars, limitVars, genVars, projVars>>

(***************************************************************************)
(* Bounds of the model.                                                    *)
(***************************************************************************)
MaxSlots == 4      \* entries (nodes and nulls) in all children arrays of a document
MaxPages == 2      \* entries of document.children
MaxStyles == 3     \* entries of fileData.styles
MaxList == 3       \* length of a root component list given to the limiting step
MaxLimit == 4      \* largest maxComponents
MaxFrameworks == 3 \* length of the list of frameworks given to generateCode
MaxFiles == 2      \* files of a project

(***************************************************************************)
(* JavaScript values.                                                      *)
(***************************************************************************)
Undefined == [t |-> "undefined"]
Null == [t |-> "null"]
Num(n) == [t |-> "number", v |-> n]
Str(s) == [t |-> "string", v |-> s]
Pending == [t |-> "pending"]
TypeError == [t |-> "raised", error |-> "TypeError"]

\* obj.f : a field the object does not carry reads as undefined
Get(obj, f) == IF f \in DOMAIN obj THEN obj[f] ELSE Undefined

Has(obj, f) == f \in DOMAIN obj

\* obj?.f
OptGet(obj, f) == IF obj = Undefined \/ obj = Null THEN Undefined ELSE Get(obj, f)

Arr(s) == [t |-> "array", items |-> s]

\* arr?.[0]
OptFirst(arr) ==
    IF arr = Undefined \/ arr = Null THEN Undefined
    ELSE IF Len(arr.items) > 0 THEN arr.items[1] ELSE Undefined

\* ToBoolean(v) for the values of the model
Truthy(v) ==
    IF v = Undefined \/ v = Null THEN FALSE
    ELSE IF "t" \in DOMAIN v /\ "v" \in DOMAIN v
         THEN IF v.t = "number" THEN v.v # 0
              ELSE IF v.t = "boolean" THEN v.v
              ELSE v.v # ""
         ELSE TRUE

\* a || b
Or(a, b) == IF Truthy(a) THEN a ELSE b

\* `${v}` for a string or undefined
TemplateString(v) == IF v = Undefined THEN "undefined" ELSE v.v

(***************************************************************************)
(* FigmaService.extractComponents                                          *)
(***************************************************************************)

\* properties of a node by its type (figmaService.js 102-128)
TextProperties(node) ==
    [content    |-> Or(Get(node, "characters"), Str("")),
     fontSize   |-> OptGet(Get(node, "style"), "fontSize"),
     fontFamily |-> OptGet(Get(node, "style"), "fontFamily"),
     fontWeight |-> OptGet(Get(node, "style"), "fontWeight"),
     textAlign  |-> OptGet(Get(node, "style"), "textAlignHorizontal"),
     color      |-> OptGet(OptFirst(Get(node, "fills")), "color")]

Padding(node) == Or(Get(node, "paddingLeft"), Or(Get(node, "paddingTop"), Num(0)))

BoxProperties(node) ==
    [width           |-> OptGet(Get(node, "absoluteBoundingBox"), "width"),
     height          |-> OptGet(Get(node, "absoluteBoundingBox"), "height"),
     x               |-> OptGet(Get(node, "absoluteBoundingBox"), "x"),
     y               |-> OptGet(Get(node, "absoluteBoundingBox"), "y"),
     backgroundColor |-> OptGet(OptFirst(Get(node, "fills")), "color"),
     borderRadius    |-> Get(node, "cornerRadius"),
     padding         |-> Padding(node)]

InstanceProperties(node) ==
    [componentName |-> Get(node, "name"),
     width         |-> OptGet(Get(node, "absoluteBoundingBox"), "width"),
     height        |-> OptGet(Get(node, "absoluteBoundingBox"), "height")]

EmptyObject == [f \in {} |-> Undefined]

\* mutant of ExtractProperties: FRAME is not recognised as a box
ExtractPropertiesNoFrame(node) ==
    LET type == Get(node, "type") IN
    IF type = Str("TEXT") THEN TextProperties(node)
    ELSE IF type = Str("RECTANGLE") THEN BoxProperties(node)
    ELSE IF type = Str("INSTANCE") \/ type = Str("COMPONENT") THEN InstanceProperties(node)
    ELSE EmptyObject

ExtractProperties(node) ==
    LET type == Get(node, "type") IN
    IF type = Str("TEXT") THEN TextProperties(node)
    ELSE IF type = Str("RECTANGLE") \/ type = Str("FRAME") THEN BoxProperties(node)
    ELSE IF type = Str("INSTANCE") \/ type = Str("COMPONENT") THEN InstanceProperties(node)
    ELSE EmptyObject

\* parent: parent ? parent.id : null
ParentRef(parent) == IF Truthy(parent) THEN Get(parent, "id") ELSE Null

NewComponent(node, parent) ==
    [id         |-> Get(node, "id"),
     name       |-> Get(node, "name"),
     type       |-> Get(node, "type"),
     parent     |-> ParentRef(parent),
     children   |-> <<>>,
     properties |-> ExtractProperties(node)]

\* mutant of LinkChild: the guard on the recursive result is dropped
LinkChildUnguarded(component, childComponent) ==
    [component EXCEPT !.children = Append(@, childComponent)]

\* if (childComponent) component.children.push(childComponent)
LinkChild(component, childComponent) ==
    IF Truthy(childComponent)
    THEN [component EXCEPT !.children = Append(@, childComponent)]
    ELSE component

\* mutant of Collect: only components without a parent are collected
CollectRootsOnly(list, component) ==
    IF component.parent = Null THEN Append(list, component) ELSE list

\* components.push(component)
Collect(list, component) == Append(list, component)

\* node.children && node.children.length > 0
HasChildren(node) ==
    Truthy(Get(node, "children")) /\ Len(Get(node, "children").items) > 0

RECURSIVE traverse(_, _, _)
RECURSIVE forEachChild(_, _, _, _)

\* the closure traverse(node, parent); `list` is the shared array before the
\* call, the result carries the returned component and the array after it
traverse(node, parent, list) ==
    IF ~Truthy(node) THEN [ret |-> Undefined, list |-> list]
    ELSE LET component == NewComponent(node, parent)
             r == IF HasChildren(node)
                  THEN forEachChild(Get(node, "children").items, 1, component, list)
                  ELSE [component |-> component, list |-> list]
         IN [ret |-> r.component, list |-> Collect(r.list, r.component)]

\* node.children.forEach((child) => ...) from entry k on
forEachChild(kids, k, component, list) ==
    IF k > Len(kids) THEN [component |-> component, list |-> list]
    ELSE LET r == traverse(kids[k], component, list)
         IN forEachChild(kids, k + 1, LinkChild(component, r.ret), r.list)

RECURSIVE forEachTop(_, _, _)
\* page.children.forEach((child) => traverse(child)) from entry k on
forEachTop(kids, k, list) ==
    IF k > Len(kids) THEN list
    ELSE forEachTop(kids, k + 1, traverse(kids[k], Null, list).list)

\* reading page.children of a null page raises a TypeError
PageRaises(page) == page = Null \/ page = Undefined

RECURSIVE forEachPage(_, _, _)
\* fileData.document.children.forEach((page) => ...) from entry k on
forEachPage(pages, k, list) ==
    IF k > Len(pages) THEN [raised |-> FALSE, list |-> list]
    ELSE IF PageRaises(pages[k]) THEN [raised |-> TRUE, list |-> list]
    ELSE IF Truthy(Get(pages[k], "children"))
         THEN forEachPage(pages, k + 1, forEachTop(Get(pages[k], "children").items, 1, list))
         ELSE forEachPage(pages, k + 1, list)

\* mutant of RootFilter: the flat list is returned unfiltered
RootFilterNone(list) == list

\* components.filter((c) => !c.parent)
RootFilter(list) == SelectSeq(list, LAMBDA c : ~Truthy(c.parent))

\* the whole call: the flat array it built and what it produced
extractComponents(data) ==
    LET doc == Get(data, "document")
        walk == IF Truthy(doc) /\ Truthy(Get(doc, "children"))
                THEN forEachPage(Get(doc, "children").items, 1, <<>>)
                ELSE [raised |-> FALSE, list |-> <<>>]
    IN [list |-> walk.list,
        out  |-> IF walk.raised THEN TypeError
                 ELSE [name         |-> Get(data, "name"),
                       version      |-> Get(data, "version"),
                       lastModified |-> Get(data, "lastModified"),
                       components   |-> RootFilter(walk.list)]]

(***************************************************************************)
(* FigmaService.extractStyles.  A JavaScript object used as a map is the   *)
(* sequence of its entries [k, v] in iteration order; a bucket is a        *)
(* function from names to style definitions.                               *)
(***************************************************************************)
EmptyBucket == [n \in {} |-> Undefined]

\* bucket[name] = style
Assign(bucket, name, style) ==
    [n \in DOMAIN bucket \cup {name} |-> IF n = name THEN style ELSE bucket[n]]

\* mutant of FileStyle: the last branch is a plain else
FileStyleElseEffect(acc, style) ==
    LET styleType == Get(style, "styleType") IN
    IF styleType = Str("FILL")
    THEN [acc EXCEPT !.colors = Assign(@, style.name.v, style)]
    ELSE IF styleType = Str("TEXT")
    THEN [acc EXCEPT !.typography = Assign(@, style.name.v, style)]
    ELSE [acc EXCEPT !.effects = Assign(@, style.name.v, style)]

\* one iteration of the forEach over Object.entries(fileData.styles)
FileStyle(acc, style) ==
    LET styleType == Get(style, "styleType") IN
    IF styleType = Str("FILL")
    THEN [acc EXCEPT !.colors = Assign(@, style.name.v, style)]
    ELSE IF styleType = Str("TEXT")
    THEN [acc EXCEPT !.typography = Assign(@, style.name.v, style)]
    ELSE IF styleType = Str("EFFECT")
    THEN [acc EXCEPT !.effects = Assign(@, style.name.v, style)]
    ELSE acc

RECURSIVE forEachStyle(_, _, _)
forEachStyle(entries, k, acc) ==
    IF k > Len(entries) THEN acc
    ELSE forEachStyle(entries, k + 1, FileStyle(acc, entries[k].v))

extractStyles(data) ==
    LET init == [colors |-> EmptyBucket, typography |-> EmptyBucket, effects |-> EmptyBucket]
    IN IF Truthy(Get(data, "styles"))
       THEN forEachStyle(Get(data, "styles").entries, 1, init)
       ELSE init

(***************************************************************************)
(* ProjectExtractionService.extractFileComponents: the limiting step.      *)
(***************************************************************************)
\* list.slice(0, end)
Slice(list, end) ==
    LET stop == IF end < 0 THEN (IF Len(list) + end < 0 THEN 0 ELSE Len(list) + end)
                ELSE IF end > Len(list) THEN Len(list) ELSE end
    IN SubSeq(list, 1, stop)

\* mutant of LimitComponents: the list is cut one entry short
LimitComponentsShort(list, max) ==
    IF Len(list) > max THEN Slice(list, max - 1) ELSE list

\* if (components && components.length > maxComponents) components = components.slice(0, maxComponents)
LimitComponents(list, max) ==
    IF Len(list) > max THEN Slice(list, max) ELSE list

(***************************************************************************)
(* DesignAnalyzerAgent and ProjectExtractionService.generateCode.          *)
(* A completion text is a sequence of lexical pieces:                      *)
(*   "{" and "}"  the braces;                                              *)
(*   "c"  the member "components": [{name, code, styles, dependencies}];   *)
(*   "m"  the members "globalStyles": "" and "notes": "";                  *)
(*   "e"  the member "error": "cannot generate";                           *)
(*   "k"  a member key whose value is the object that follows;             *)
(*   "x"  any text that is not JSON, a line of prose or of code.           *)
(***************************************************************************)
MaxText == 5       \* pieces of a completion text

Pieces == {"{", "}", "c", "m", "e", "k", "x"}

RECURSIVE TextsOfLength(_)
TextsOfLength(n) ==
    IF n = 0 THEN {<<>>}
    ELSE {Append(tx, pc0) : tx \in TextsOfLength(n - 1), pc0 \in Pieces}

\* every completion text of at most MaxText pieces
Texts == UNION {TextsOfLength(n) : n \in 0..MaxText}

TextArtifact == <<"{", "c", "m", "}">>      \* the JSON the prompt asks for
TextProse == <<"x", "x">>                   \* code with no braces in it
TextBroken == <<"{", "x", "}">>             \* braces around something that is not JSON
TextEmptyObject == <<"x", "{", "}">>        \* an explanation followed by {}
TextError == <<"{", "e", "}">>              \* the model declines: {"error": "cannot generate"}

\* the completion texts the generation loop is run on
ResponseTexts == {TextArtifact, TextProse, TextBroken, TextEmptyObject, TextError}

\* obj with the member key set to value; a repeated key keeps the last value
SetMember(obj, key, value) ==
    [f \in DOMAIN obj \cup {key} |-> IF f = key THEN value ELSE obj[f]]

ParseError == [ok |-> FALSE, next |-> 0, value |-> EmptyObject]

\* the members of an object and its closing brace, read from position i of s on
RECURSIVE ParseMembers(_, _, _)
ParseMembers(s, i, acc) ==
    IF i > Len(s) THEN ParseError
    ELSE IF s[i] = "}" THEN [ok |-> TRUE, next |-> i + 1, value |-> acc]
    ELSE IF s[i] = "c"
    THEN ParseMembers(s, i + 1,
             SetMember(acc, "components",
                       <<[name |-> "Button", code |-> <<"x">>, styles |-> "",
                          dependencies |-> <<>>]>>))
    ELSE IF s[i] = "m"
    THEN ParseMembers(s, i + 1, SetMember(SetMember(acc, "globalStyles", ""), "notes", ""))
    ELSE IF s[i] = "e"
    THEN ParseMembers(s, i + 1, SetMember(acc, "error", "cannot generate"))
    ELSE IF s[i] = "k" /\ i + 1 <= Len(s) /\ s[i + 1] = "{"
    THEN LET inner == ParseMembers(s, i + 2, EmptyObject)
         IN  IF inner.ok THEN ParseMembers(s, inner.next, SetMember(acc, "k", inner.value))
             ELSE ParseError
    ELSE ParseError

\* JSON.parse of a text that starts with a brace: the object, or ok = FALSE for
\* the SyntaxError thrown
JSONParse(s) ==
    IF s = <<>> \/ s[1] # "{" THEN ParseError
    ELSE LET r == ParseMembers(s, 2, EmptyObject)
         IN  IF r.ok /\ r.next = Len(s) + 1 THEN r ELSE ParseError

\* the first position of s that holds piece, 0 when there is none
FirstIndex(s, piece) ==
    IF \E i \in 1..Len(s) : s[i] = piece
    THEN CHOOSE i \in 1..Len(s) : s[i] = piece /\ \A j \in 1..(i - 1) : s[j] # piece
    ELSE 0

\* mutant of SpanEnd: [\s\S]*? stops at the first closing brace
SpanEndLazy(s, from) ==
    IF \E i \in (from + 1)..Len(s) : s[i] = "}"
    THEN CHOOSE i \in (from + 1)..Len(s) :
             s[i] = "}" /\ \A j \in (from + 1)..(i - 1) : s[j] # "}"
    ELSE 0

\* where [\s\S]*\} ends for a match that starts at from: the last closing brace
\* behind from, 0 when there is none
SpanEnd(s, from) ==
    IF \E i \in (from + 1)..Len(s) : s[i] = "}"
    THEN CHOOSE i \in (from + 1)..Len(s) :
             s[i] = "}" /\ \A j \in (i + 1)..Len(s) : s[j] # "}"
    ELSE 0

\* response.match(/\{[\s\S]*\}/): the leftmost match, null when no opening
\* brace has a closing brace behind it. An opening brace with no closing brace
\* behind it has none behind any later opening brace either.
Match(response) ==
    LET from == FirstIndex(response, "{")
        to == IF from = 0 THEN 0 ELSE SpanEnd(response, from)
    IN  IF to = 0 THEN Null ELSE [t |-> "match", text |-> SubSeq(response, from, to)]

Fallback(response, notes) ==
    [components   |-> <<[name |-> "GeneratedComponent", code |-> response,
                         styles |-> "", dependencies |-> <<>>]>>,
     globalStyles |-> "",
     notes        |-> notes]

\* DesignAnalyzerAgent.parseResponse
parseResponse(response) ==
    LET jsonMatch == Match(response)
    IN  IF jsonMatch # Null
        THEN LET object == JSONParse(jsonMatch.text)
             IN  IF object.ok THEN object.value
                 ELSE Fallback(response, "Raw AI response")
        ELSE Fallback(response, "Generated code from AI response")

\* what the awaited axios.post of callAI can do
AIOutcomes ==
    {[kind |-> "rejected"], [kind |-> "malformed"]}
    \cup {[kind |-> "text", text |-> tx] : tx \in ResponseTexts}

\* DesignAnalyzerAgent.analyzeAndGenerateCode from the completion of callAI on:
\* the artifact returned, or the message of the Error thrown
analyzeAndGenerateCode(ai) ==
    IF ai.kind = "rejected"
    THEN [threw |-> TRUE, message |-> "Failed to generate code: Request failed"]
    ELSE IF ai.kind = "malformed"
    THEN [threw |-> TRUE, message |-> "Failed to generate code: Cannot read properties of undefined"]
    ELSE [threw |-> FALSE, code |-> parseResponse(ai.text)]

\* the message of the Error setupProvider throws without an API key
NoApiKey == "API key not configured for provider: github"

\* comp => ({id, name, type, properties})
SimplifyComponent(comp) ==
    [id |-> comp.id, name |-> comp.name, type |-> comp.type, properties |-> comp.properties]

\* simplifiedComponents of generateCode
Simplify(data) ==
    [f \in DOMAIN data \cup {"components"} |->
        IF f = "components"
        THEN IF Has(data, "components")
             THEN [i \in 1..Len(data.components) |-> SimplifyComponent(data.components[i])]
             ELSE <<>>
        ELSE data[f]]

\* simplifiedComponents of the extract-project handler: the list is sliced
\* once more before it is mapped
HandlerSimplify(data, max) ==
    Simplify(IF Has(data, "components")
             THEN [data EXCEPT !.components = Slice(@, max)]
             ELSE data)

\* generatedCode[framework] = code
RecordSuccess(code, framework, artifact) == Assign(code, framework, artifact)

\* generatedCode[framework] = {error: error.message, status: 'failed'}
RecordFailure(code, framework, message) ==
    Assign(code, framework, [error |-> message, status |-> "failed"])

\* mutant of AfterCatch: the failure ends the loop
AfterCatchBreak(k, frameworks) == Len(frameworks) + 1

\* mutant of AfterCatch: the failed framework is tried again
AfterCatchRetry(k, frameworks) == k

\* the catch block completes normally: the for loop goes on with the next framework
AfterCatch(k, frameworks) == k + 1

(***************************************************************************)
(* Documents.  The entries of all children arrays are numbered 1..n in     *)
(* document order; up[i] is the array entry i sits in: -p for the children *)
(* of page p, j > 0 for the children of node j.  kind[i] is "null" for a   *)
(* null entry and the node's type otherwise.  A FRAME carries a children   *)
(* array (possibly empty), a TEXT node carries no children field.          *)
(***************************************************************************)
SlotKinds == {"null", "FRAME", "TEXT"}
PageKinds == {"null", "nochildren", "children"}
DocKinds == {"nodocument", "nochildren", "children"}

\* every entry sits in the children of a page that has them or of an earlier entry
WellFounded(pages, n, up) ==
    \A i \in 1..n :
        /\ up[i] < i
        /\ up[i] < 0 => /\ -up[i] <= Len(pages)
                        /\ pages[-up[i]] = "children"

RECURSIVE Anc(_, _)
Anc(up, i) == IF up[i] < 0 THEN {up[i]} ELSE {up[i]} \cup Anc(up, up[i])

PageOf(up, i) == CHOOSE p \in 1..MaxPages : -p \in Anc(up, i)

\* the entries are numbered in document order
DocumentOrder(n, up) ==
    \A i \in 2..n :
        \/ up[i] = i - 1
        \/ up[i] \in Anc(up, i - 1)
        \/ up[i] < 0 /\ -up[i] > PageOf(up, i - 1)

ValidShape(pages, n, up) ==
    IF WellFounded(pages, n, up) THEN DocumentOrder(n, up) ELSE FALSE

ValidKinds(n, up, kind) ==
    \A i \in 1..n : up[i] > 0 => kind[up[i]] = "FRAME"

\* the entries of the array `where`, in document order
Kids(n, up, where) ==
    SelectSeq([i \in 1..n |-> i], LAMBDA i : up[i] = where)

NodeId(i) == Str(ToString(i))

RECURSIVE BuildNode(_, _, _, _)
BuildNode(n, up, kind, i) ==
    IF kind[i] = "null" THEN Null
    ELSE IF kind[i] = "TEXT"
         THEN [id |-> NodeId(i), name |-> Str("Label"), type |-> Str("TEXT"),
               characters |-> Str("Click")]
         ELSE LET kids == Kids(n, up, i) IN
              [id |-> NodeId(i), name |-> Str("Frame"), type |-> Str(kind[i]),
               children |-> Arr([k \in 1..Len(kids) |-> BuildNode(n, up, kind, kids[k])])]

BuildPage(pages, n, up, kind, p) ==
    IF pages[p] = "null" THEN Null
    ELSE IF pages[p] = "nochildren"
         THEN [id |-> Str("page"), name |-> Str("Page"), type |-> Str("PAGE")]
         ELSE LET kids == Kids(n, up, -p) IN
              [id |-> Str("page"), name |-> Str("Page"), type |-> Str("PAGE"),
               children |-> Arr([k \in 1..Len(kids) |-> BuildNode(n, up, kind, kids[k])])]

BuildFile(docKind, pages, n, up, kind) ==
    IF docKind = "nodocument" THEN [name |-> Str("File")]
    ELSE IF docKind = "nochildren"
         THEN [name |-> Str("File"), document |-> [id |-> Str("0:0")]]
         ELSE [name |-> Str("File"),
               document |-> [id |-> Str("0:0"),
                             children |-> Arr([p \in 1..Len(pages) |->
                                                 BuildPage(pages, n, up, kind, p)])]]

\* the documents of the model
IsFile(data) ==
    \/ data = BuildFile("nodocument", <<>>, 0, <<>>, <<>>)
    \/ data = BuildFile("nochildren", <<>>, 0, <<>>, <<>>)
    \/ \E n \in 0..MaxSlots :
       \E pages \in UNION {[1..l -> PageKinds] : l \in 0..MaxPages} :
       \E up \in [1..n -> (-MaxPages..-1) \cup (1..n)] :
          /\ ValidShape(pages, n, up)
          /\ \E kind \in [1..n -> SlotKinds] :
                /\ ValidKinds(n, up, kind)
                /\ data = BuildFile("children", pages, n, up, kind)

(***************************************************************************)
(* Specification of extractComponents: one call on any document.           *)
(***************************************************************************)
GenIdle == generatedCode = Pending /\ fwIdx = 0 /\ attempts = <<>>
ProjIdle ==
    /\ params = Pending /\ pc = "idle" /\ files = <<>> /\ projectName = Pending
    /\ outputDir = Null /\ outputFiles = <<>> /\ totalComponentsExtracted = 0
    /\ fileIdx = 0 /\ fileSpec = Pending /\ disk = EmptyBucket /\ outcome = Pending
    /\ observed = <<>> /\ calls = <<>> /\ request = [entry |-> "none"]
TreeIdle == fileData = Pending /\ components = <<>> /\ returned = Pending
PropIdle == inputNode = Pending /\ properties = Pending
ParseIdle == responseText = Pending /\ parsed = Pending
RepoIdle == store = Pending /\ clock = 0 /\ client = <<>> /\ initially = <<>>
StyleIdle == styles = Pending
LimitIdle == componentsData = Pending /\ maxComponents = 0 /\ limited = Pending

InitTree ==
    /\ IsFile(fileData)
    /\ components = <<>>
    /\ returned = Pending
    /\ PropIdle /\ ParseIdle /\ RepoIdle /\ StyleIdle /\ LimitIdle /\ GenIdle /\ ProjIdle

ExtractComponents ==
    /\ returned = Pending
    /\ LET r == extractComponents(fileData) IN
        /\ components' = r.list
        /\ returned' = r.out
    /\ UNCHANGED <<fileData, propVars, parseVars, repoVars, styleVars, limitVars, genVars, projVars>>

NextTree == ExtractComponents

SpecTree == InitTree /\ [][NextTree]_vars

(***************************************************************************)
(* The document read directly, without the traversal.                      *)
(***************************************************************************)
Returned == returned # Pending /\ returned # TypeError

\* the pages of the document that carry a children array
PagesWithChildren(data) ==
    LET doc == Get(data, "document") IN
    IF Truthy(doc) /\ Truthy(Get(doc, "children"))
    THEN {pg \in {Get(doc, "children").items[k] : k \in 1..Len(Get(doc, "children").items)} :
            pg # Null /\ Truthy(Get(pg, "children"))}
    ELSE {}

NonNull(items) == {items[k] : k \in 1..Len(items)} \ {Null}

\* the non-null nodes that are direct children of a page
TopNodes(data) == UNION {NonNull(pg.children.items) : pg \in PagesWithChildren(data)}

ChildNodes(node) ==
    IF "children" \in DOMAIN node THEN NonNull(node.children.items) ELSE {}

RECURSIVE Descendants(_)
Descendants(node) ==
    ChildNodes(node) \cup UNION {Descendants(c) : c \in ChildNodes(node)}

\* the non-null nodes nested under another node
NestedNodes(data) == UNION {Descendants(nd) : nd \in TopNodes(data)}

AllNodes(data) == TopNodes(data) \cup NestedNodes(data)

Ids(nodes) == {nd.id : nd \in nodes}

HasNullEntry(data) ==
    \/ \E pg \in PagesWithChildren(data) : \E k \in 1..Len(pg.children.items) : pg.children.items[k] = Null
    \/ \E nd \in AllNodes(data) :
          "children" \in DOMAIN nd /\ \E k \in 1..Len(nd.children.items) : nd.children.items[k] = Null

\* the Component the flat list holds for a node id
ComponentOf(id) == components[CHOOSE j \in 1..Len(components) : components[j].id = id]

\* C1: when extractComponents returns, the flat list holds exactly one
\* Component per non-null node reachable from the pages' children: as many
\* entries as such nodes, every node collected, none collected twice.
FlatListComplete ==
    Returned =>
        /\ Len(components) = Cardinality(AllNodes(fileData))
        /\ {components[j].id : j \in 1..Len(components)} = Ids(AllNodes(fileData))
        /\ \A j, k \in 1..Len(components) : components[j].id = components[k].id => j = k

FlatListWitness ==
    /\ Returned
    /\ Len(components) >= 3
    /\ NestedNodes(fileData) # {}
    /\ HasNullEntry(fileData)

\* C2: in the flat list parent is set exactly on the Components reached by
\* recursion from another Component (and names that Component); the list
\* returned is the subsequence of the direct children of pages and holds no
\* Component nested under another one.
ParentIffNested ==
    Returned =>
        /\ \A j \in 1..Len(components) :
              /\ (components[j].parent # Null) <=> (components[j].id \in Ids(NestedNodes(fileData)))
              /\ (components[j].parent = Null) <=> (components[j].id \in Ids(TopNodes(fileData)))
              /\ components[j].parent # Null =>
                    \E nd \in AllNodes(fileData) :
                        /\ nd.id = components[j].parent
                        /\ components[j].id \in Ids(ChildNodes(nd))
        /\ returned.components =
              SelectSeq(components, LAMBDA c : c.id \in Ids(TopNodes(fileData)))
        /\ \A j \in 1..Len(returned.components) :
              returned.components[j].id \notin Ids(NestedNodes(fileData))

ParentIffNestedWitness ==
    /\ Returned
    /\ \E j \in 1..Len(components) : components[j].parent # Null
    /\ Len(returned.components) >= 2
    /\ Len(returned.components) < Len(components)

\* the Components expected under a node: those of its non-null children, in
\* the node's child order
ExpectedChildren(node) ==
    IF "children" \in DOMAIN node
    THEN LET present == SelectSeq(node.children.items, LAMBDA c : c # Null)
         IN [k \in 1..Len(present) |-> ComponentOf(present[k].id)]
    ELSE <<>>

\* C3: the children list of every Component holds exactly the Components
\* built for the node's non-null children, in the node's child order; a null
\* entry adds nothing to it, nor to the flat list.
ChildrenLinked ==
    Returned =>
        /\ \A nd \in AllNodes(fileData) :
              ComponentOf(nd.id).children = ExpectedChildren(nd)
        /\ \A j \in 1..Len(components) : components[j] # Undefined /\ components[j] # Null
        /\ Len(components) = Cardinality(AllNodes(fileData))

ChildrenLinkedWitness ==
    /\ Returned
    /\ \E nd \in AllNodes(fileData) :
          /\ "children" \in DOMAIN nd
          /\ Len(nd.children.items) >= 3
          /\ nd.children.items[1] = Null
          /\ Len(ComponentOf(nd.id).children) = 2

\* C4: extractComponents raises for no document.
NeverRaises == returned # TypeError

(***************************************************************************)
(* Specification of the property extraction of traverse: one node with any *)
(* combination of the optional source fields.                              *)
(***************************************************************************)
NoFields == [f \in {} |-> Undefined]

\* the objects {}, {f: v} for v in vals
Optional(f, vals) == {NoFields} \cup {[g \in {f} |-> v] : v \in vals}

Merge(a, b) == [f \in DOMAIN a \cup DOMAIN b |-> IF f \in DOMAIN a THEN a[f] ELSE b[f]]

NodeTypes == {"TEXT", "RECTANGLE", "FRAME", "INSTANCE", "COMPONENT", "GROUP"}
Color == [r |-> Num(1), g |-> Num(0), b |-> Num(0)]
FullStyle == [fontSize |-> Num(16), fontFamily |-> Str("Roboto"),
              fontWeight |-> Num(700), textAlignHorizontal |-> Str("LEFT")]
Box == [x |-> Num(10), y |-> Num(20), width |-> Num(200), height |-> Num(150)]

IsInputNode(nd) ==
    \E ty \in Optional("type", {Str(ty) : ty \in NodeTypes}) :
    \E nm \in Optional("name", {Str("Button")}) :
    \E ch \in Optional("characters", {Str(""), Str("Click")}) :
    \E st \in Optional("style", {[fontSize |-> Num(16)], FullStyle}) :
    \E fl \in Optional("fills", {Arr(<<>>), Arr(<<Null>>), Arr(<<[color |-> Color]>>)}) :
    \E bb \in Optional("absoluteBoundingBox", {Box}) :
    \E cr \in Optional("cornerRadius", {Num(0), Num(12)}) :
    \E pl \in Optional("paddingLeft", {Null, Num(0), Num(16)}) :
    \E pt \in Optional("paddingTop", {Null, Num(0), Num(20)}) :
        nd = Merge([id |-> Str("1:2")],
             Merge(ty, Merge(nm, Merge(ch, Merge(st, Merge(fl, Merge(bb, Merge(cr, Merge(pl, pt)))))))))

InitProps ==
    /\ IsInputNode(inputNode)
    /\ properties = Pending
    /\ TreeIdle /\ ParseIdle /\ RepoIdle /\ StyleIdle /\ LimitIdle /\ GenIdle /\ ProjIdle

\* component.properties as traverse fills it for inputNode
TraverseProperties ==
    /\ properties = Pending
    /\ properties' = ExtractProperties(inputNode)
    /\ UNCHANGED <<inputNode, treeVars, parseVars, repoVars, styleVars, limitVars, genVars, projVars>>

NextProps == TraverseProperties

SpecProps == InitProps /\ [][NextProps]_vars

\* the node read directly
TypeIs(nd, names) == Has(nd, "type") /\ nd.type \in {Str(ty) : ty \in names}
Source(nd, f) == IF Has(nd, f) THEN nd[f] ELSE Undefined
Nested(nd, f, g) == IF Has(nd, f) /\ Has(nd[f], g) THEN nd[f][g] ELSE Undefined
FirstFillColor(nd) ==
    IF Has(nd, "fills") /\ Len(nd.fills.items) > 0 /\ nd.fills.items[1] # Null
       /\ Has(nd.fills.items[1], "color")
    THEN nd.fills.items[1].color
    ELSE Undefined

\* the property bag by type, with `noPadding` the padding of a box that has
\* neither paddingLeft nor paddingTop
BagByType(nd, bag, noPadding) ==
    /\ TypeIs(nd, {"TEXT"}) =>
          /\ DOMAIN bag = {"content", "fontSize", "fontFamily", "fontWeight", "textAlign", "color"}
          /\ bag.content = (IF Has(nd, "characters") THEN nd.characters ELSE Str(""))
          /\ bag.fontSize = Nested(nd, "style", "fontSize")
          /\ bag.fontFamily = Nested(nd, "style", "fontFamily")
          /\ bag.fontWeight = Nested(nd, "style", "fontWeight")
          /\ bag.textAlign = Nested(nd, "style", "textAlignHorizontal")
          /\ bag.color = FirstFillColor(nd)
    /\ TypeIs(nd, {"RECTANGLE", "FRAME"}) =>
          /\ DOMAIN bag = {"width", "height", "x", "y", "backgroundColor", "borderRadius", "padding"}
          /\ bag.width = Nested(nd, "absoluteBoundingBox", "width")
          /\ bag.height = Nested(nd, "absoluteBoundingBox", "height")
          /\ bag.x = Nested(nd, "absoluteBoundingBox", "x")
          /\ bag.y = Nested(nd, "absoluteBoundingBox", "y")
          /\ bag.backgroundColor = FirstFillColor(nd)
          /\ bag.borderRadius = Source(nd, "cornerRadius")
          /\ (~Has(nd, "paddingLeft") /\ ~Has(nd, "paddingTop")) => bag.padding = noPadding
    /\ TypeIs(nd, {"INSTANCE", "COMPONENT"}) =>
          /\ DOMAIN bag = {"componentName", "width", "height"}
          /\ bag.componentName = Source(nd, "name")
          /\ bag.width = Nested(nd, "absoluteBoundingBox", "width")
          /\ bag.height = Nested(nd, "absoluteBoundingBox", "height")
    /\ ~TypeIs(nd, {"TEXT", "RECTANGLE", "FRAME", "INSTANCE", "COMPONENT"}) =>
          DOMAIN bag = {}

\* C6 (as amended): the keys of the property bag follow from the node's type
\* alone; every value is the source field's, absent when the source field is
\* absent, except that content is the empty string without characters and
\* padding is 0 without paddingLeft and paddingTop.
PropertyBagByType ==
    properties # Pending => BagByType(inputNode, properties, Num(0))

PropertyBagByTypeWitness ==
    /\ properties # Pending
    /\ TypeIs(inputNode, {"RECTANGLE"})
    /\ DOMAIN inputNode = {"id", "type"}
    /\ properties.width = Undefined
    /\ properties.padding = Num(0)

\* C6 (as stated): as above, but every absent source field other than
\* characters gives an absent value, padding included.
PropertyBagAllAbsent ==
    properties # Pending => BagByType(inputNode, properties, Undefined)

\* a field that is there and is not null
Present(nd, f) == Has(nd, f) /\ nd[f] # Null

\* C7: padding of a RECTANGLE or FRAME is paddingLeft when present, otherwise
\* paddingTop when present, otherwise 0.
PaddingFirstPresent ==
    (properties # Pending /\ TypeIs(inputNode, {"RECTANGLE", "FRAME"})) =>
        properties.padding =
            (IF Present(inputNode, "paddingLeft") THEN inputNode.paddingLeft
             ELSE IF Present(inputNode, "paddingTop") THEN inputNode.paddingTop
             ELSE Num(0))

(***************************************************************************)
(* Specification of extractStyles: one call on any style map.              *)
(***************************************************************************)
StyleNames == {"Primary", "Heading"}
StyleTypes == {"FILL", "TEXT", "EFFECT", "GRID"}

StyleEntry(i, name, styleType) ==
    [k |-> ToString(i),
     v |-> [key |-> Str(ToString(i)), name |-> Str(name), styleType |-> Str(styleType)]]

IsStyleFile(data) ==
    \/ data = [name |-> Str("File")]
    \/ \E l \in 0..MaxStyles :
       \E names \in [1..l -> StyleNames] :
       \E types \in [1..l -> StyleTypes] :
          data = [name |-> Str("File"),
                  styles |-> [entries |-> [i \in 1..l |-> StyleEntry(i, names[i], types[i])]]]

InitStyles ==
    /\ IsStyleFile(fileData)
    /\ components = <<>>
    /\ returned = Pending
    /\ styles = Pending
    /\ PropIdle /\ ParseIdle /\ RepoIdle /\ LimitIdle /\ GenIdle /\ ProjIdle

ExtractStyles ==
    /\ styles = Pending
    /\ styles' = extractStyles(fileData)
    /\ UNCHANGED <<treeVars, propVars, parseVars, repoVars, limitVars, genVars, projVars>>

NextStyles == ExtractStyles

SpecStyles == InitStyles /\ [][NextStyles]_vars

\* the definitions of the input map, in iteration order
InputStyles ==
    IF Has(fileData, "styles")
    THEN [i \in 1..Len(fileData.styles.entries) |-> fileData.styles.entries[i].v]
    ELSE <<>>

BucketFor(styleType) ==
    IF styleType = Str("FILL") THEN "colors"
    ELSE IF styleType = Str("TEXT") THEN "typography"
    ELSE IF styleType = Str("EFFECT") THEN "effects"
    ELSE "none"

Range(f) == {f[x] : x \in DOMAIN f}
BucketNames == {"colors", "typography", "effects"}

\* the last definition of the input with this name and this bucket
LastFiled(name, bucket) ==
    LET same == {i \in 1..Len(InputStyles) :
                    InputStyles[i].name = name /\ BucketFor(InputStyles[i].styleType) = bucket}
    IN InputStyles[CHOOSE i \in same : \A j \in same : j <= i]

\* C8: every definition with a recognised styleType is filed under its name
\* in the bucket of that type and in no other (the later of two that share a
\* name and a bucket is the one kept); a definition with any other styleType
\* is in no bucket; the buckets together hold at most as many entries as
\* there are recognised definitions; without a map, or with an empty one, the
\* three buckets are empty.
StylesBucketed ==
    styles # Pending =>
        /\ DOMAIN styles = BucketNames
        /\ \A i \in 1..Len(InputStyles) :
              LET d == InputStyles[i]
                  b == BucketFor(d.styleType)
              IN /\ b # "none" => /\ d.name.v \in DOMAIN styles[b]
                                  /\ styles[b][d.name.v] = LastFiled(d.name, b)
                 /\ \A o \in BucketNames \ {b} : d \notin Range(styles[o])
        /\ \A b \in BucketNames : \A n \in DOMAIN styles[b] :
              \E i \in 1..Len(InputStyles) :
                 /\ styles[b][n] = InputStyles[i]
                 /\ InputStyles[i].name.v = n
                 /\ BucketFor(InputStyles[i].styleType) = b
        /\ Cardinality(DOMAIN styles.colors) + Cardinality(DOMAIN styles.typography)
              + Cardinality(DOMAIN styles.effects)
              <= Cardinality({i \in 1..Len(InputStyles) : BucketFor(InputStyles[i].styleType) # "none"})
        /\ Len(InputStyles) = 0 =>
              styles = [colors |-> EmptyBucket, typography |-> EmptyBucket, effects |-> EmptyBucket]

StylesBucketedWitness ==
    /\ styles # Pending
    /\ Len(InputStyles) = 3
    /\ \E i, j, k \in 1..3 :
          /\ i < j
          /\ InputStyles[i].styleType = Str("FILL") /\ InputStyles[j].styleType = Str("FILL")
          /\ InputStyles[i].name = InputStyles[j].name
          /\ InputStyles[k].styleType = Str("GRID")
    /\ Cardinality(DOMAIN styles.colors) = 1
    /\ DOMAIN styles.effects = {}

(***************************************************************************)
(* Specification of the limiting step of extractFileComponents.            *)
(***************************************************************************)
RootComponent(i) ==
    NewComponent([id |-> NodeId(i), name |-> Str("Group"), type |-> Str("GROUP")], Null)

InitLimit ==
    /\ \E l \in 0..MaxList : \E ids \in [1..l -> 1..MaxList] :
          componentsData = [name |-> Str("File"),
                            components |-> [i \in 1..l |-> RootComponent(ids[i])]]
    /\ maxComponents \in 0..MaxLimit
    /\ limited = Pending
    /\ TreeIdle /\ PropIdle /\ ParseIdle /\ RepoIdle /\ StyleIdle /\ GenIdle /\ ProjIdle

Limit ==
    /\ limited = Pending
    /\ limited' = [componentsData EXCEPT !.components = LimitComponents(@, maxComponents)]
    /\ UNCHANGED <<componentsData, maxComponents, treeVars, propVars, parseVars, repoVars, styleVars, genVars, projVars>>

NextLimit == Limit

SpecLimit == InitLimit /\ [][NextLimit]_vars

\* C5: the limited list has length min(|list|, N) and holds the leading
\* elements of the list in their order; a list no longer than N is unchanged.
LimitIsPrefix ==
    limited # Pending =>
        LET list == componentsData.components IN
        /\ Len(limited.components) = (IF Len(list) < maxComponents THEN Len(list) ELSE maxComponents)
        /\ \A i \in 1..Len(limited.components) : limited.components[i] = list[i]
        /\ Len(list) <= maxComponents => limited = componentsData

LimitIsPrefixWitness ==
    /\ limited # Pending
    /\ Len(componentsData.components) = 3
    /\ maxComponents = 2
    /\ Len(limited.components) = 2
    /\ componentsData.components[1] # componentsData.components[2]

(***************************************************************************)
(* ProjectExtractionService.processFile / extractProject.                  *)
(* uuid and timestamps (id, extractedAt, the date in the directory name)   *)
(* are left out of the records.                                            *)
(***************************************************************************)
Raised(name, message) == [t |-> "raised", error |-> name, message |-> message]

\* sanitizeFileName on the file names of the model
sanitizeFileName(name) ==
    IF name = "File" THEN "file"
    ELSE IF name = "File 1" THEN "file-1"
    ELSE IF name = "File 2" THEN "file-2"
    ELSE IF name = "File 3" THEN "file-3"
    ELSE "file-n"

\* createOutputDirectory: the directory name
DirName(p, fileName) ==
    IF Truthy(p.fileKey) THEN "file-" \o sanitizeFileName(fileName.v)
    ELSE "project-" \o TemplateString(p.projectId)

\* path.join(process.cwd(), 'output', dirName)
OutputPath(dirName) == [dir |-> "cwd/output", base |-> dirName]

\* path.basename(outputDir)
Basename(path) == path.base

\* saveFileSpec: the name of the file written
JsonFileName(file) == sanitizeFileName(file.name.v) \o ".json"

\* the file record fetchFiles builds in single file mode
SingleFile(fileKey, data) ==
    [key |-> fileKey, name |-> Get(data, "name"),
     last_modified |-> Get(data, "lastModified"),
     thumbnail_url |-> Or(Get(data, "thumbnailUrl"), Null)]

\* extractFileComponents after getFile: componentsData and styles, or the
\* exception of extractComponents
extractFileComponents(data, max) ==
    LET r == extractComponents(data) IN
    IF r.out = TypeError
    THEN [threw |-> TRUE, message |-> "Cannot read properties of null (reading 'children')"]
    ELSE [threw |-> FALSE,
          componentsData |-> [r.out EXCEPT !.components = LimitComponents(@, max)],
          styles |-> extractStyles(data)]

\* processFile: the file specification
BuildFileSpec(file, data, st, code) ==
    [fileName     |-> file.name,
     fileKey      |-> file.key,
     lastModified |-> file.last_modified,
     thumbnailUrl |-> file.thumbnail_url,
     components   |-> data.components,
     styles       |-> st,
     generatedCode |-> code,
     metadata     |-> [totalComponents |-> Len(data.components)]]

\* frameworks.filter((f) => !result.fileSpec.generatedCode[f]?.error)
SuccessfulFrameworks(frameworks, code) ==
    SelectSeq(frameworks, LAMBDA f : ~(f \in DOMAIN code /\ Has(code[f], "error") /\ code[f].error # ""))

SuccessEntry(file, frameworks, spec, jsonFileName) ==
    [fileName |-> file.name,
     fileKey  |-> file.key,
     frameworks |-> SuccessfulFrameworks(frameworks, spec.generatedCode),
     componentsExtracted |-> Len(spec.components),
     jsonPath |-> jsonFileName]

FailedEntry(file, message) ==
    [fileName |-> file.name, fileKey |-> file.key, error |-> message, status |-> "failed"]

\* mutant of PushFailed: a failed file leaves no entry
PushFailedDropped(manifest, file, message) == manifest

\* outputFiles.push({fileName, fileKey, error, status: 'failed'})
PushFailed(manifest, file, message) == Append(manifest, FailedEntry(file, message))

\* projectIndex of extractProject
ProjectIndex(p, name, fs, manifest, total, dir) ==
    [projectId   |-> Or(p.projectId, Null),
     fileKey     |-> Or(p.fileKey, Null),
     projectName |-> name,
     teamId      |-> Or(p.teamId, Null),
     filesProcessed |-> Len(fs),
     totalComponentsExtracted |-> total,
     frameworks  |-> p.frameworks,
     files       |-> manifest,
     outputDirectory |-> dir]

\* the value extractProject returns
ProjectResult(p, name, fs, manifest, total, dir) ==
    [ProjectIndex(p, name, fs, manifest, total, dir) EXCEPT !.outputDirectory = Basename(dir)]

(***************************************************************************)
(* generateCode as a process: it is suspended at the await of              *)
(* analyzeAndGenerateCode (pc = "callAI") once per framework.              *)
(***************************************************************************)
FrameworkNames == {"react", "vue", "html"}

\* an external call: a request to the design-file API (getFile, listFiles), a
\* completion call, or a call of fs (mkdir, writeFile)
Call(op, file, framework) ==
    [op |-> op, file |-> file, framework |-> framework, settled |-> FALSE]

\* the call is made: its promise is pending
Issue(cs, call) == Append(cs, call)

\* mutant of Settle: the code goes on while the call is still pending
SettleNothing(cs) == cs

\* await: the code goes on when the promise of the call just made has settled
Settle(cs) == [cs EXCEPT ![Len(cs)].settled = TRUE]

\* new DesignAnalyzerAgent('github') throws: the catch records the failure
AgentConstructionFails ==
    /\ pc = "generate"
    /\ fwIdx <= Len(params.frameworks)
    /\ generatedCode' = RecordFailure(generatedCode, params.frameworks[fwIdx], NoApiKey)
    /\ attempts' = Append(attempts, [framework |-> params.frameworks[fwIdx],
                                     components |-> Simplify(componentsData).components,
                                     threw |-> TRUE, message |-> NoApiKey])
    /\ fwIdx' = AfterCatch(fwIdx, params.frameworks)
    /\ UNCHANGED <<treeVars, propVars, parseVars, repoVars, styleVars, limitVars, projVars>>

\* the agent is built, the prompt is built and sent
CallAI ==
    /\ pc = "generate"
    /\ fwIdx <= Len(params.frameworks)
    /\ pc' = "callAI"
    /\ calls' = Issue(calls, Call("completion", fileIdx, params.frameworks[fwIdx]))
    /\ UNCHANGED <<treeVars, propVars, parseVars, repoVars, styleVars, limitVars, genVars, params, files,
                   projectName, outputDir, outputFiles, totalComponentsExtracted,
                   fileIdx, fileSpec, disk, outcome, observed, request>>

\* the completions drawn: all of them for a call of generateCode alone; inside
\* extractProject one that is rejected, one that parses to the artifact asked
\* for and one that parses to an object with an error member
Completions ==
    IF files = <<>> THEN AIOutcomes
    ELSE {[kind |-> "rejected"], [kind |-> "text", text |-> TextArtifact],
          [kind |-> "text", text |-> TextError]}

\* the completion call ends; the slot of the framework is filled
CallAIReturn ==
    /\ pc = "callAI"
    /\ \E ai \in Completions :
        LET r == analyzeAndGenerateCode(ai)
            framework == params.frameworks[fwIdx]
        IN /\ generatedCode' = IF r.threw THEN RecordFailure(generatedCode, framework, r.message)
                               ELSE RecordSuccess(generatedCode, framework, r.code)
           /\ attempts' = Append(attempts,
                                 [framework |-> framework,
                                  components |->
                                     (IF request.entry = "projectHandler"
                                      THEN HandlerSimplify(componentsData,
                                               params.options.maxComponentsPerFile)
                                      ELSE Simplify(componentsData)).components]
                                 @@ (IF ai.kind = "text"
                                     THEN [threw |-> FALSE, text |-> ai.text]
                                     ELSE [threw |-> TRUE, message |-> r.message]))
           /\ fwIdx' = IF r.threw THEN AfterCatch(fwIdx, params.frameworks) ELSE fwIdx + 1
    /\ pc' = "generate"
    /\ calls' = Settle(calls)
    /\ UNCHANGED <<treeVars, propVars, parseVars, repoVars, styleVars, limitVars, params, files,
                   projectName, outputDir, outputFiles, totalComponentsExtracted,
                   fileIdx, fileSpec, disk, outcome, observed, request>>

\* the loop is over: return generatedCode
GenerateCodeReturn ==
    /\ pc = "generate"
    /\ fwIdx > Len(params.frameworks)
    /\ pc' = "generated"
    /\ UNCHANGED <<treeVars, propVars, parseVars, repoVars, styleVars, limitVars, genVars, params, files,
                   projectName, outputDir, outputFiles, totalComponentsExtracted,
                   fileIdx, fileSpec, disk, outcome, observed, calls, request>>

InitGen ==
    /\ \E l \in 0..MaxFrameworks : \E fw \in [1..l -> FrameworkNames] :
          params = [frameworks |-> fw, options |-> [maxComponentsPerFile |-> 10]]
    /\ \E l \in 0..1 :
          componentsData = [name |-> Str("File"),
                            components |-> [i \in 1..l |-> RootComponent(i)]]
    /\ maxComponents = 0 /\ limited = Pending
    /\ generatedCode = EmptyBucket
    /\ fwIdx = 1
    /\ attempts = <<>>
    /\ pc = "generate"
    /\ files = <<>> /\ projectName = Pending
    /\ outputDir = Null /\ outputFiles = <<>> /\ totalComponentsExtracted = 0
    /\ fileIdx = 0 /\ fileSpec = Pending /\ disk = EmptyBucket /\ outcome = Pending
    /\ observed = <<>>
    /\ calls = <<>>
    /\ request = [entry |-> "service"]
    /\ TreeIdle /\ PropIdle /\ ParseIdle /\ RepoIdle /\ StyleIdle

NextGen == AgentConstructionFails \/ CallAI \/ CallAIReturn \/ GenerateCodeReturn

SpecGen == InitGen /\ [][NextGen]_vars

(***************************************************************************)
(* extractProject as a process.  pc names the await it is suspended at:    *)
(* fetchFiles, mkdir, getFile (of processFile), callAI, saveFileSpec,      *)
(* projectIndex; generate and generated are positions inside the           *)
(* synchronous code of generateCode and processFile.                       *)
(***************************************************************************)
\* the documents the design-file API answers with
DocThreeRoots ==
    Merge(BuildFile("children", <<"children">>, 4,
                    <<-1, 1, -1, -1>>, <<"FRAME", "TEXT", "TEXT", "FRAME">>),
          [styles |-> [entries |-> <<StyleEntry(1, "Primary", "FILL")>>]])
DocNullPage == BuildFile("children", <<"null">>, 0, <<>>, <<>>)
DocNoDocument == BuildFile("nodocument", <<>>, 0, <<>>, <<>>)
RemoteDocs == {DocThreeRoots, DocNullPage, DocNoDocument}

\* what the awaited getFile can do
GetFileOutcomes ==
    {[ok |-> FALSE, message |-> "Failed to fetch Figma file: \"Not found\""]}
    \cup {[ok |-> TRUE, data |-> d] : d \in RemoteDocs}

\* response.data.files of the project listing
ListedFiles(k) ==
    [i \in 1..k |-> [key |-> Str("key" \o ToString(i)), name |-> Str("File " \o ToString(i)),
                     last_modified |-> Str("2024-01-01"), thumbnail_url |-> Null]]

ProjectFrameworkLists == {<<"react">>, <<"react", "vue">>}

IsParams(p) ==
    \E fw \in ProjectFrameworkLists : \E docs \in BOOLEAN :
       \/ p = [fileKey |-> Str("key0"), teamId |-> Undefined, projectId |-> Undefined,
               frameworks |-> fw,
               options |-> [maxComponentsPerFile |-> 2, generateDocs |-> docs]]
       \/ p = [fileKey |-> Undefined, teamId |-> Str("team"), projectId |-> Str("proj"),
               frameworks |-> fw,
               options |-> [maxComponentsPerFile |-> 2, generateDocs |-> docs]]

InitProject ==
    /\ IsParams(params)
    /\ pc = "start"
    /\ files = <<>> /\ projectName = Pending
    /\ outputDir = Null /\ outputFiles = <<>> /\ totalComponentsExtracted = 0
    /\ fileIdx = 0 /\ fileSpec = Pending /\ disk = EmptyBucket /\ outcome = Pending
    /\ observed = <<>>
    /\ calls = <<>>
    /\ request = [entry |-> "service"]
    /\ fileData = Pending /\ components = <<>> /\ returned = Pending
    /\ PropIdle /\ ParseIdle /\ RepoIdle /\ StyleIdle /\ LimitIdle /\ GenIdle

\* extractProject is called: fetchFiles issues its request
StartExtractProject ==
    /\ pc = "start"
    /\ pc' = "fetchFiles"
    /\ calls' = Issue(calls, Call(IF Truthy(params.fileKey) THEN "getFile" ELSE "listFiles", 0, ""))
    /\ UNCHANGED <<treeVars, propVars, parseVars, repoVars, styleVars, limitVars, genVars, params, files,
                   projectName, outputDir, outputFiles, totalComponentsExtracted,
                   fileIdx, fileSpec, disk, outcome, observed, request>>

\* mutant of NoFiles: the check for an empty list of files is left out
NoFilesNever(fs) == FALSE

\* files.length === 0
NoFiles(fs) == Len(fs) = 0

\* files[0]?.name || 'unknown'
FirstFileName(fs) == IF Len(fs) > 0 THEN Or(fs[1].name, Str("unknown")) ELSE Str("unknown")

\* fetchFiles ends: an error, no files (ValidationError), or the files, and
\* createOutputDirectory issues mkdir
FetchFilesReturn ==
    /\ pc = "fetchFiles"
    /\ \/ /\ Truthy(params.fileKey)
          /\ \E g \in GetFileOutcomes :
                IF g.ok
                THEN /\ files' = <<SingleFile(params.fileKey, g.data)>>
                     /\ projectName' = Get(g.data, "name")
                     /\ pc' = "mkdir"
                     /\ outcome' = outcome
                ELSE /\ pc' = "failed"
                     /\ outcome' = Raised("Error", g.message)
                     /\ UNCHANGED <<files, projectName>>
       \/ /\ ~Truthy(params.fileKey)
          /\ \/ /\ pc' = "failed"
                /\ outcome' = Raised("ExternalAPIError", "Failed to fetch project files from Figma")
                /\ UNCHANGED <<files, projectName>>
             \/ \E k \in 0..MaxFiles :
                   /\ files' = ListedFiles(k)
                   /\ projectName' = IF k > 0 THEN ListedFiles(k)[1].name ELSE Str("Unknown Project")
                   /\ IF NoFiles(ListedFiles(k))
                      THEN /\ pc' = "failed"
                           /\ outcome' = Raised("ValidationError",
                                                "No files found in the specified project or file")
                      ELSE /\ pc' = "mkdir"
                           /\ outcome' = outcome
    /\ calls' = IF pc' = "mkdir" THEN Issue(Settle(calls), Call("mkdir", 0, ""))
                ELSE Settle(calls)
    /\ UNCHANGED <<treeVars, propVars, parseVars, repoVars, styleVars, limitVars, genVars, params, outputDir,
                   outputFiles, totalComponentsExtracted, fileIdx, fileSpec, disk, observed, request>>

\* mkdir ends: an error, or the directory, and the loop starts on the first file
CreateOutputDirectoryReturn ==
    /\ pc = "mkdir"
    /\ \/ /\ pc' = "failed"
          /\ outcome' = Raised("Error", "EACCES: permission denied, mkdir")
          /\ calls' = Settle(calls)
          /\ UNCHANGED <<outputDir, fileIdx>>
       \/ /\ outputDir' = OutputPath(DirName(params, FirstFileName(files)))
          /\ fileIdx' = 1
          /\ pc' = "getFile"
          /\ outcome' = outcome
          /\ calls' = Issue(Settle(calls), Call("getFile", 1, ""))
    /\ UNCHANGED <<treeVars, propVars, parseVars, repoVars, styleVars, limitVars, genVars, params, files,
                   projectName, outputFiles, totalComponentsExtracted, fileSpec, disk,
                   observed, request>>

\* the locals of processFile go out of scope
LocalsDropped ==
    /\ fileData' = Pending
    /\ componentsData' = Pending
    /\ styles' = Pending
    /\ generatedCode' = Pending
    /\ fwIdx' = 0
    /\ attempts' = <<>>
    /\ fileSpec' = Pending

\* mutant of GenerateDocs: the index is written whatever the option says
GenerateDocsAlways(options) == TRUE

\* if (options.generateDocs)
GenerateDocs(options) == options.generateDocs

\* the end of one iteration of the for loop over files: the next file, or the index
LoopOn(manifest, total, cs) ==
    /\ outputFiles' = manifest
    /\ totalComponentsExtracted' = total
    /\ IF fileIdx < Len(files)
       THEN /\ fileIdx' = fileIdx + 1
            /\ pc' = "getFile"
            /\ outcome' = outcome
            /\ calls' = Issue(cs, Call("getFile", fileIdx + 1, ""))
       ELSE /\ fileIdx' = fileIdx
            /\ IF GenerateDocs(params.options)
               THEN /\ pc' = "projectIndex"
                    /\ outcome' = outcome
                    /\ calls' = Issue(cs, Call("writeFile", 0, ""))
               ELSE /\ pc' = "completed"
                    /\ outcome' = ProjectResult(params, projectName, files, manifest, total, outputDir)
                    /\ calls' = cs

\* mutant of AddExtracted: the running total counts files, not components
AddExtractedOne(total, componentsExtracted) == total + 1

\* totalComponentsExtracted += result.componentsExtracted
AddExtracted(total, componentsExtracted) == total + componentsExtracted

\* processFile returns {error, status: 'failed', success: false}
FileFailed(message, cs) ==
    /\ LoopOn(PushFailed(outputFiles, files[fileIdx], message), totalComponentsExtracted, cs)
    /\ observed' = Append(observed, [fileKey |-> files[fileIdx].key, extraction |-> "failed",
                                     message |-> message, generationFailed |-> {}])
    /\ LocalsDropped

\* mutant of AfterStep: styles are collected before the components are limited
AfterStepStylesFirst(step) ==
    CASE step = "extractTree" -> "styles"
      [] step = "styles" -> "limit"
      [] step = "limit" -> "generate"

\* the order of the statements of extractFileComponents after getFile, and
\* generateCode after it in processFile
AfterStep(step) ==
    CASE step = "extractTree" -> "limit"
      [] step = "limit" -> "styles"
      [] step = "styles" -> "generate"

\* the first statement of generateCode, whichever step led to it
EnterGenerateCode ==
    /\ generatedCode' = EmptyBucket
    /\ fwIdx' = 1
    /\ attempts' = <<>>

\* a step of extractFileComponents moves on to the next statement
StepOn(step) ==
    /\ pc' = AfterStep(step)
    /\ IF AfterStep(step) = "generate" THEN EnterGenerateCode
       ELSE UNCHANGED <<generatedCode, fwIdx, attempts>>

\* getFile of processFile ends: an error (the file fails), or the document
GetFileReturn ==
    /\ pc = "getFile"
    /\ \E g \in GetFileOutcomes :
          IF ~g.ok THEN FileFailed(g.message, Settle(calls))
          ELSE /\ fileData' = g.data
               /\ pc' = "extractTree"
               /\ calls' = Settle(calls)
               /\ UNCHANGED <<componentsData, styles, genVars, fileSpec, outputFiles,
                              totalComponentsExtracted, fileIdx, outcome, observed, request>>
    /\ UNCHANGED <<components, returned, propVars, parseVars, repoVars, maxComponents, limited, params, request, files,
                   projectName, outputDir, disk>>

\* figmaService.extractComponents(fileData): it raises (the file fails), or
\* componentsData is held
ExtractTreeStep ==
    /\ pc = "extractTree"
    /\ \E r \in {extractComponents(fileData)} :
       IF r.out = TypeError
       THEN FileFailed("Cannot read properties of null (reading 'children')", calls)
       ELSE /\ componentsData' = r.out
            /\ StepOn("extractTree")
            /\ UNCHANGED <<fileData, styles, fileSpec, outputFiles,
                           totalComponentsExtracted, fileIdx, outcome, observed, calls, request>>
    /\ UNCHANGED <<components, returned, propVars, parseVars, repoVars, maxComponents, limited, params, request, files,
                   projectName, outputDir, disk>>

\* componentsData.components is cut to maxComponents
LimitComponentsStep ==
    /\ pc = "limit"
    /\ componentsData' = [componentsData EXCEPT
                            !.components = LimitComponents(@, params.options.maxComponentsPerFile)]
    /\ StepOn("limit")
    /\ UNCHANGED <<fileData, components, returned, propVars, parseVars, repoVars, styles, maxComponents, limited,
                   params, files, projectName, outputDir, outputFiles,
                   totalComponentsExtracted, fileIdx, fileSpec, disk, outcome, observed, calls, request>>

\* figmaService.extractStyles(fileData)
CollectStylesStep ==
    /\ pc = "styles"
    /\ styles' = extractStyles(fileData)
    /\ StepOn("styles")
    /\ UNCHANGED <<treeVars, propVars, parseVars, repoVars, limitVars, params, files, projectName, outputDir,
                   outputFiles, totalComponentsExtracted, fileIdx, fileSpec, disk, outcome,
                   observed, calls, request>>

\* generateCode has returned: processFile builds the file specification and
\* returns; saveFileSpec issues writeFile
ProcessFileReturn ==
    /\ pc = "generated"
    /\ files # <<>>
    /\ request.entry # "projectHandler"
    /\ fileSpec' = BuildFileSpec(files[fileIdx], componentsData, styles, generatedCode)
    /\ pc' = "saveFileSpec"
    /\ calls' = Issue(calls, Call("writeFile", fileIdx, ""))
    /\ UNCHANGED <<treeVars, propVars, parseVars, repoVars, styleVars, limitVars, genVars, params, files,
                   projectName, outputDir, outputFiles, totalComponentsExtracted,
                   fileIdx, disk, outcome, observed, request>>

\* writeFile of saveFileSpec ends: an error, or the file is written and the
\* entry of the file is pushed
SaveFileSpecReturn ==
    /\ pc = "saveFileSpec"
    /\ \/ /\ pc' = "failed"
          /\ outcome' = Raised("Error", "ENOSPC: no space left on device, write")
          /\ calls' = Settle(calls)
          /\ UNCHANGED <<disk, outputFiles, totalComponentsExtracted, fileIdx, observed, request>>
       \/ /\ disk' = Assign(disk, JsonFileName(files[fileIdx]), fileSpec)
          /\ LoopOn(Append(outputFiles,
                           SuccessEntry(files[fileIdx], params.frameworks, fileSpec,
                                        JsonFileName(files[fileIdx]))),
                    AddExtracted(totalComponentsExtracted, Len(componentsData.components)),
                    Settle(calls))
          /\ observed' = Append(observed,
                [fileKey |-> files[fileIdx].key, extraction |-> "ok", message |-> "",
                 generationFailed |-> {attempts[i].framework :
                                          i \in {j \in 1..Len(attempts) : attempts[j].threw}}])
    /\ LocalsDropped
    /\ UNCHANGED <<components, returned, propVars, parseVars, repoVars, maxComponents, limited, params, request, files,
                   projectName, outputDir>>

\* writeFile of generateProjectIndex ends: an error, or the index is written
\* and extractProject returns
GenerateProjectIndexReturn ==
    /\ pc = "projectIndex"
    /\ \/ /\ pc' = "failed"
          /\ outcome' = Raised("Error", "ENOSPC: no space left on device, write")
          /\ UNCHANGED disk
       \/ /\ disk' = Assign(disk, "project-index.json",
                            ProjectIndex(params, projectName, files, outputFiles,
                                         totalComponentsExtracted, outputDir))
          /\ pc' = "completed"
          /\ outcome' = ProjectResult(params, projectName, files, outputFiles,
                                      totalComponentsExtracted, outputDir)
    /\ calls' = Settle(calls)
    /\ UNCHANGED <<treeVars, propVars, parseVars, repoVars, styleVars, limitVars, genVars, params, files,
                   projectName, outputDir, outputFiles, totalComponentsExtracted,
                   fileIdx, fileSpec, observed, request>>

NextProject ==
    \/ StartExtractProject
    \/ FetchFilesReturn
    \/ CreateOutputDirectoryReturn
    \/ GetFileReturn
    \/ ExtractTreeStep
    \/ LimitComponentsStep
    \/ CollectStylesStep
    \/ AgentConstructionFails
    \/ CallAI
    \/ CallAIReturn
    \/ GenerateCodeReturn
    \/ ProcessFileReturn
    \/ SaveFileSpecReturn
    \/ GenerateProjectIndexReturn

SpecProject == InitProject /\ [][NextProject]_vars

\* the last attempt made for a framework
LastAttempt(framework) ==
    LET same == {i \in 1..Len(attempts) : attempts[i].framework = framework}
    IN attempts[CHOOSE i \in same : \A j \in same : j <= i]

IsFailedSlot(slot) == DOMAIN slot = {"error", "status"} /\ slot.status = "failed"

\* C9: generateCode does not raise; while it runs, the frameworks before the
\* loop position have each been attempted, in the order requested, whatever
\* failed; the mapping it returns has one slot per requested framework: the
\* CodeArtifact when the (last) attempt for it succeeded, {error, status:
\* 'failed'} with the message of the error when it failed.
GenerateCodeIsolatesFailures ==
    /\ outcome = Pending
    /\ pc \in {"generate", "callAI", "generated"}
    /\ Len(attempts) = fwIdx - 1
    /\ \A i \in 1..Len(attempts) : attempts[i].framework = params.frameworks[i]
    /\ pc = "generated" =>
          /\ Len(attempts) = Len(params.frameworks)
          /\ DOMAIN generatedCode = Range(params.frameworks)
          /\ \A f \in DOMAIN generatedCode :
                LET a == LastAttempt(f) IN
                IF a.threw
                THEN generatedCode[f] = [error |-> a.message, status |-> "failed"]
                ELSE /\ generatedCode[f] = parseResponse(a.text)
                     /\ ~IsFailedSlot(generatedCode[f])

GenerateCodeIsolatesFailuresWitness ==
    /\ pc = "generated"
    /\ Len(params.frameworks) = 3
    /\ attempts[1].threw /\ attempts[1].message = NoApiKey
    /\ attempts[2].threw /\ attempts[2].message # NoApiKey
    /\ ~attempts[3].threw
    /\ Cardinality(DOMAIN generatedCode) = 3
    /\ IsFailedSlot(generatedCode[params.frameworks[1]])
    /\ ~IsFailedSlot(generatedCode[params.frameworks[3]])

(***************************************************************************)
(* The manifest of extractProject                                          *)
(***************************************************************************)
IsFailedEntry(e, file) ==
    /\ DOMAIN e = {"fileName", "fileKey", "error", "status"}
    /\ e.fileName = file.name
    /\ e.fileKey = file.key
    /\ e.status = "failed"

IsSuccessEntry(e, file) ==
    /\ DOMAIN e = {"fileName", "fileKey", "frameworks", "componentsExtracted", "jsonPath"}
    /\ e.fileName = file.name
    /\ e.fileKey = file.key

\* the messages a failed extraction of a file carries
ExtractionMessages ==
    {g.message : g \in {o \in GetFileOutcomes : ~o.ok}}
    \cup {"Cannot read properties of null (reading 'children')"}

\* the positions of extractProject inside the loop over files
InLoop ==
    pc \in {"getFile", "extractTree", "limit", "styles", "generate", "callAI", "generated",
            "saveFileSpec"}

\* C10 as stated: in extractProject, a file whose extraction or code
\* generation failed has a {fileName, fileKey, error, status:'failed'} entry in
\* the manifest, the files after it are still processed, and the manifest ends
\* with one entry per resolved file in input order.
FailedFileGetsFailedEntry ==
    /\ Len(outputFiles) = Len(observed)
    /\ \A i \in 1..Len(observed) :
          /\ outputFiles[i].fileKey = files[i].key
          /\ (observed[i].extraction = "failed" \/ observed[i].generationFailed # {})
                => IsFailedEntry(outputFiles[i], files[i])
    /\ InLoop => Len(outputFiles) = fileIdx - 1
    /\ pc \in {"projectIndex", "completed"} => Len(outputFiles) = Len(files)

\* C10 amended: in extractProject, a file whose extraction failed (network
\* error, malformed document) has a {fileName, fileKey, error, status:'failed'}
\* entry carrying the message, and the failure never makes extractProject
\* raise: the loop goes on with the next file.  A file whose code generation
\* failed for some framework keeps a successful entry whose frameworks are the
\* requested ones without the failed ones.  At every point of the loop the
\* manifest has exactly one entry per file handled so far, in input order, so
\* whenever extractProject returns it has one entry per resolved file.
ManifestRecordsEveryFile ==
    /\ Len(outputFiles) = Len(observed)
    /\ \A i \in 1..Len(observed) :
          /\ observed[i].fileKey = files[i].key
          /\ IF observed[i].extraction = "failed"
             THEN /\ IsFailedEntry(outputFiles[i], files[i])
                  /\ outputFiles[i].error = observed[i].message
             ELSE /\ IsSuccessEntry(outputFiles[i], files[i])
                  /\ outputFiles[i].frameworks =
                        SelectSeq(params.frameworks,
                                  LAMBDA f : f \in Range(outputFiles[i].frameworks))
                  /\ \A f \in observed[i].generationFailed :
                        f \notin Range(outputFiles[i].frameworks)
    /\ InLoop => Len(outputFiles) = fileIdx - 1
    /\ pc \in {"projectIndex", "completed"} => Len(outputFiles) = Len(files)
    /\ pc = "completed" => /\ outcome.files = outputFiles
                           /\ outcome.filesProcessed = Len(files)
    /\ pc = "failed" /\ fileIdx >= 1 => outcome.message \notin ExtractionMessages

\* a run over two files returned: the first file failed in extraction, the
\* second was extracted and one of its two frameworks failed in generation
ManifestRecordsEveryFileWitness ==
    /\ pc = "completed"
    /\ Len(files) = 2
    /\ Len(outputFiles) = 2
    /\ observed[1].extraction = "failed"
    /\ observed[2].extraction = "ok"
    /\ Cardinality(observed[2].generationFailed) = 1
    /\ Len(params.frameworks) = 2

(***************************************************************************)
(* Terminal states of extractProject                                       *)
(***************************************************************************)
\* C11: extractProject raises only before any file has been processed; once
\* the loop over files has started, no failure makes it raise.
FailedOnlyBeforeFirstFile == pc = "failed" => fileIdx = 0

\* fetchFiles has returned a list of no files
ResolvedNone == projectName # Pending /\ files = <<>>

\* C12: when file resolution yields zero files, extractProject raises a
\* ValidationError, and then and ever after no output directory has been
\* created and no file has been written.
ZeroFilesRaisesValidationError ==
    ResolvedNone =>
        /\ pc = "failed"
        /\ outcome = Raised("ValidationError", "No files found in the specified project or file")
        /\ outputDir = Null
        /\ disk = EmptyBucket

\* a project listing came back empty and the request has ended
ZeroFilesRaisesValidationErrorWitness ==
    /\ ResolvedNone
    /\ ~Truthy(params.fileKey)
    /\ pc = "failed"
    /\ outcome.error = "ValidationError"

(***************************************************************************)
(* The order of the steps of extractProject.  The steps are the positions  *)
(* of pc: ResolveFiles is fetchFiles, ExtractTree is extractTree,          *)
(* LimitComponents is limit, CollectStyles is styles, GenerateCode is      *)
(* generate/callAI/generated, PersistArtifact is saveFileSpec and          *)
(* PersistIndex is projectIndex.                                           *)
(***************************************************************************)
\* the moves between positions that do not depend on the order of the steps
\* of extractFileComponents
OuterOrder ==
    {<<"start", "fetchFiles">>, <<"fetchFiles", "failed">>, <<"fetchFiles", "mkdir">>,
     <<"mkdir", "failed">>, <<"mkdir", "getFile">>,
     <<"getFile", "extractTree">>, <<"getFile", "projectIndex">>, <<"getFile", "completed">>,
     <<"extractTree", "getFile">>, <<"extractTree", "projectIndex">>,
     <<"extractTree", "completed">>,
     <<"generate", "callAI">>, <<"callAI", "generate">>, <<"generate", "generated">>,
     <<"generated", "saveFileSpec">>,
     <<"saveFileSpec", "failed">>, <<"saveFileSpec", "getFile">>,
     <<"saveFileSpec", "projectIndex">>, <<"saveFileSpec", "completed">>,
     <<"projectIndex", "failed">>, <<"projectIndex", "completed">>}

\* the loop over files is entered file by file, and left after the last file
FileByFile ==
    /\ pc' = "getFile" => fileIdx' = fileIdx + 1
    /\ pc' = "projectIndex" /\ pc # "projectIndex" => fileIdx = Len(files)
    /\ InLoop' => /\ projectName' # Pending
                  /\ fileIdx' \in 1..Len(files')
    /\ pc' = "projectIndex" => projectName' # Pending

InFlight == {i \in 1..Len(calls) : ~calls[i].settled}

\* the place of a framework in the requested list
Requested(framework) ==
    CHOOSE k \in 1..Len(params.frameworks) : params.frameworks[k] = framework

\* C14: within one extraction request at most one external call is in flight
\* at any moment, and it is the one made last: a call is made only after the
\* one before it has returned or failed.  The calls for the files are made
\* file after file in input order, and the completion calls of a file in the
\* order the frameworks were requested.
OneCallInFlight ==
    /\ Cardinality(InFlight) <= 1
    /\ InFlight \subseteq {Len(calls)}
    /\ \A i, j \in 1..Len(calls) :
          i < j =>
             /\ calls[i].file > 0 /\ calls[j].file > 0 => calls[i].file <= calls[j].file
             /\ calls[i].op = "getFile" /\ calls[j].op = "getFile" => calls[i].file < calls[j].file
             /\ (calls[i].op = "completion" /\ calls[j].op = "completion"
                   /\ calls[i].file = calls[j].file)
                   => Requested(calls[i].framework) < Requested(calls[j].framework)

\* the second of two files is at its second completion call, which is pending
OneCallInFlightWitness ==
    /\ pc = "callAI"
    /\ fileIdx = 2
    /\ fwIdx = 2
    /\ Len(attempts) = 1
    /\ InFlight = {Len(calls)}
    /\ Cardinality({i \in 1..Len(calls) : calls[i].op = "completion"}) >= 3

(***************************************************************************)
(* Termination of extractProject.  Every external call eventually returns  *)
(* or fails and the code between two calls runs to the next call: weak     *)
(* fairness of the steps.                                                  *)
(***************************************************************************)
\* the steps other than ExtractTreeStep
OtherSteps ==
    \/ StartExtractProject
    \/ FetchFilesReturn
    \/ CreateOutputDirectoryReturn
    \/ GetFileReturn
    \/ LimitComponentsStep
    \/ CollectStylesStep
    \/ AgentConstructionFails
    \/ CallAI
    \/ CallAIReturn
    \/ GenerateCodeReturn
    \/ ProcessFileReturn
    \/ SaveFileSpecReturn
    \/ GenerateProjectIndexReturn

\* weak fairness of ExtractTreeStep, written out: the step is enabled exactly
\* when pc = "extractTree"
ExtractTreeRuns == []<>(pc # "extractTree") \/ []<><<ExtractTreeStep>>_vars

SpecProjectFair ==
    InitProject /\ [][NextProject]_vars /\ WF_vars(OtherSteps) /\ ExtractTreeRuns

\* no call is made twice, and the frameworks of a file are attempted one by
\* one in the requested order; once the file loop is over every file has been
\* fetched for processing once
EachAttemptedOnce ==
    /\ \A i, j \in 1..Len(calls) :
          i # j => <<calls[i].op, calls[i].file, calls[i].framework>>
                      # <<calls[j].op, calls[j].file, calls[j].framework>>
    /\ pc \in {"generate", "callAI", "generated"} =>
          /\ Len(attempts) <= Len(params.frameworks)
          /\ \A k \in 1..Len(attempts) : attempts[k].framework = params.frameworks[k]
          /\ Len(attempts) = fwIdx - 1
    /\ pc = "generated" => Len(attempts) = Len(params.frameworks)
    /\ pc \in {"projectIndex", "completed"} =>
          \A f \in 1..Len(files) :
             Cardinality({i \in 1..Len(calls) :
                             calls[i].op = "getFile" /\ calls[i].file = f}) = 1

\* C15: provided every external call eventually returns or fails, every
\* extraction request eventually reaches Completed or Failed; each file and
\* each framework is attempted exactly once, with no retry.
EventuallyCompletedOrFailed ==
    /\ <>(pc \in {"completed", "failed"})
    /\ []EachAttemptedOnce

\* a run over two files has ended after a failed fetch and a failed
\* completion call, neither of them tried again
EventuallyCompletedOrFailedWitness ==
    /\ pc = "completed"
    /\ Len(files) = 2
    /\ observed[1].extraction = "failed"
    /\ observed[2].generationFailed = {"react"}
    /\ Cardinality({i \in 1..Len(calls) : calls[i].op = "getFile"}) = 2
    /\ Cardinality({i \in 1..Len(calls) : calls[i].op = "completion"}) <= 2

(***************************************************************************)
(* The entry points that trigger code generation: the project-extraction   *)
(* controller, the extract-project handler and the extract-design handler. *)
(* request holds the entry point and the body received; pc = "request"     *)
(* until the entry point has validated it.                                 *)
(***************************************************************************)
ValidFrameworks == {"react", "vue", "angular", "html"}

Bool(b) == [t |-> "boolean", v |-> b]

\* res.status(status).json({success, error, details})
Response(status, error) == [t |-> "response", status |-> status, error |-> error]

\* validateFramework for every element, after Array.isArray
validateFrameworks(frameworks) ==
    IF frameworks.t # "array"
    THEN [threw |-> TRUE, message |-> "Frameworks must be an array"]
    ELSE IF \E k \in 1..Len(frameworks.items) : frameworks.items[k] \notin ValidFrameworks
    THEN [threw |-> TRUE,
          message |-> "Invalid framework. Must be one of: react, vue, angular, html"]
    ELSE [threw |-> FALSE]

\* validatePositiveInteger(value, fieldName, defaultValue) for numbers
validatePositiveInteger(value, defaultValue) ==
    IF value = Undefined \/ value = Null THEN [threw |-> FALSE, value |-> defaultValue]
    ELSE IF value.t # "number" \/ value.v < 1
    THEN [threw |-> TRUE, message |-> "maxComponentsPerFile must be a positive integer"]
    ELSE [threw |-> FALSE, value |-> value.v]

\* validateBoolean(value, defaultValue)
validateBoolean(value, defaultValue) ==
    IF value = Undefined \/ value = Null THEN defaultValue
    ELSE Truthy(value)

\* !figmaToken || !githubToken
MissingTokens(body) == ~Truthy(Get(body, "figmaToken")) \/ ~Truthy(Get(body, "githubToken"))

\* mutant of MissingIdentifiers: the identifiers are not looked at
MissingIdentifiersNever(body) == FALSE

\* !fileKey && (!teamId || !projectId)
MissingIdentifiers(body) ==
    /\ ~Truthy(Get(body, "fileKey"))
    /\ ~Truthy(Get(body, "teamId")) \/ ~Truthy(Get(body, "projectId"))

\* const {options = {}} = req.body
OptionsOf(body) == IF Get(body, "options") = Undefined THEN NoFields ELSE body.options

\* the items of the list of frameworks
Items(frameworks) == frameworks.items

\* the request bodies of the two project-extraction entry points
IdentifierSets ==
    {NoFields,
     [fileKey |-> Str("key0")],
     [teamId |-> Str("team")],
     [teamId |-> Str("team"), projectId |-> Str("proj")],
     [fileKey |-> Str("key0"), teamId |-> Str("team"), projectId |-> Str("proj")]}

FrameworkValues ==
    {Arr(<<"react", "vue">>), Arr(<<"svelte">>), Arr(<<"react", "svelte">>), Str("react")}

OptionSets ==
    {Merge(fw, rest) :
        fw \in Optional("frameworks", FrameworkValues),
        rest \in {NoFields, [maxComponentsPerFile |-> Num(2), generateDocs |-> Bool(FALSE)],
                  [maxComponentsPerFile |-> Num(0)], [maxComponentsPerFile |-> Num(-1)]}}

ProjectBodies ==
    {Merge(top, Merge(ft, Merge(gt, Merge(ids, op)))) :
        top \in Optional("frameworks", {Arr(<<"vue", "html">>)}),
        ft \in Optional("figmaToken", {Str("figd")}),
        gt \in Optional("githubToken", {Str("ghp")}),
        ids \in IdentifierSets,
        op \in Optional("options", OptionSets)}

\* the entry point ends the request before anything else is done
Rejected(result) ==
    /\ pc' = "failed"
    /\ outcome' = result
    /\ UNCHANGED <<params, calls>>

\* ProjectExtractionController.extractProject up to the await of
\* service.extractProject: a ValidationError or an Error is thrown, or the
\* service is called with the validated parameters
ControllerExtractProject ==
    /\ pc = "request"
    /\ request.entry = "controller"
    /\ LET body == request.body
           options == OptionsOf(body)
           frameworks == Or(Get(options, "frameworks"), Arr(<<"react">>))
           maxComponentsPerFile ==
               validatePositiveInteger(Get(options, "maxComponentsPerFile"), 10)
       IN IF MissingTokens(body)
          THEN Rejected(Raised("ValidationError", "figmaToken and githubToken are required"))
          ELSE IF MissingIdentifiers(body)
          THEN Rejected(Raised("ValidationError",
                               "Either fileKey OR (teamId and projectId) are required"))
          ELSE IF validateFrameworks(frameworks).threw
          THEN Rejected(Raised("Error", validateFrameworks(frameworks).message))
          ELSE IF maxComponentsPerFile.threw
          THEN Rejected(Raised("Error", maxComponentsPerFile.message))
          ELSE /\ params' = [fileKey |-> Get(body, "fileKey"),
                             teamId |-> Get(body, "teamId"),
                             projectId |-> Get(body, "projectId"),
                             frameworks |-> Items(frameworks),
                             options |-> [maxComponentsPerFile |-> maxComponentsPerFile.value,
                                          generateDocs |->
                                             validateBoolean(Get(options, "generateDocs"), TRUE)]]
               /\ pc' = "start"
               /\ UNCHANGED <<outcome, calls>>
    /\ UNCHANGED <<treeVars, propVars, parseVars, repoVars, styleVars, limitVars, genVars, files, projectName,
                   outputDir, outputFiles, totalComponentsExtracted, fileIdx, fileSpec,
                   disk, observed, request>>

(***************************************************************************)
(* The extract-project handler (api/v1/extract-project.js).  Its body      *)
(* repeats the steps of the service inline; its loop over the frameworks   *)
(* is the loop of generateCode, so the steps CallAI, CallAIReturn,         *)
(* AgentConstructionFails and GenerateCodeReturn stand for it.             *)
(***************************************************************************)
\* file.name.replace(/[^a-z0-9]/gi, '-') + '.json', on the names of the model
HandlerJsonFileName(file) ==
    IF file.name = Str("File") THEN "File.json"
    ELSE IF file.name = Str("File 1") THEN "File-1.json"
    ELSE "File-n.json"

\* path.join(process.cwd(), 'output', fileKey ? `file-${fileKey}-...` : `project-${projectId}-...`)
HandlerOutputPath(p) ==
    [dir |-> "cwd/output",
     base |-> IF Truthy(p.fileKey) THEN "file-" \o p.fileKey.v
              ELSE "project-" \o TemplateString(p.projectId)]

\* the handler answers and the request is over
Responded(result) ==
    /\ pc' = "responded"
    /\ outcome' = result

\* the handler up to its first await: 400 for a body without tokens or
\* identifiers, or the defaults of the options and the first request
HandlerExtractProject ==
    /\ pc = "request"
    /\ request.entry = "projectHandler"
    /\ LET body == request.body
           options == OptionsOf(body)
           frameworks == IF Get(options, "frameworks") = Undefined THEN Arr(<<"react">>)
                         ELSE options.frameworks
           maxComponentsPerFile == IF Get(options, "maxComponentsPerFile") = Undefined THEN 10
                                   ELSE options.maxComponentsPerFile.v
           generateDocs == IF Get(options, "generateDocs") = Undefined THEN TRUE
                           ELSE Truthy(options.generateDocs)
       IN IF MissingTokens(body) \/ MissingIdentifiers(body)
          THEN /\ Responded(Response(400, "Missing required fields"))
               /\ UNCHANGED <<params, calls>>
          ELSE /\ params' = [fileKey |-> Get(body, "fileKey"),
                             teamId |-> Get(body, "teamId"),
                             projectId |-> Get(body, "projectId"),
                             frameworks |-> Items(frameworks),
                             options |-> [maxComponentsPerFile |-> maxComponentsPerFile,
                                          generateDocs |-> generateDocs]]
               /\ pc' = "hResolve"
               /\ calls' = Issue(calls, Call(IF Truthy(Get(body, "fileKey")) THEN "getFile"
                                             ELSE "listFiles", 0, ""))
               /\ outcome' = outcome
    /\ UNCHANGED <<treeVars, propVars, parseVars, repoVars, styleVars, limitVars, genVars, files, projectName,
                   outputDir, outputFiles, totalComponentsExtracted, fileIdx, fileSpec,
                   disk, observed, request>>

\* the files are resolved: an error (500), no files (404), or the files, and
\* mkdir is issued
HandlerResolved ==
    /\ pc = "hResolve"
    /\ \/ /\ Responded(Response(500, "Failed to extract project"))
          /\ calls' = Settle(calls)
          /\ UNCHANGED <<files, projectName>>
       \/ /\ Truthy(params.fileKey)
          /\ \E d \in RemoteDocs :
                /\ files' = <<SingleFile(params.fileKey, d)>>
                /\ projectName' = Get(d, "name")
          /\ pc' = "hMkdir"
          /\ outcome' = outcome
          /\ calls' = Issue(Settle(calls), Call("mkdir", 0, ""))
       \/ /\ ~Truthy(params.fileKey)
          /\ \E k \in 0..1 :
                /\ files' = ListedFiles(k)
                /\ projectName' = IF k > 0 THEN ListedFiles(k)[1].name
                                  ELSE Str("Unknown Project")
                /\ IF k = 0
                   THEN /\ Responded(Response(404, "No files found"))
                        /\ calls' = Settle(calls)
                   ELSE /\ pc' = "hMkdir"
                        /\ outcome' = outcome
                        /\ calls' = Issue(Settle(calls), Call("mkdir", 0, ""))
    /\ UNCHANGED <<treeVars, propVars, parseVars, repoVars, styleVars, limitVars, genVars, params, outputDir,
                   outputFiles, totalComponentsExtracted, fileIdx, fileSpec, disk, observed,
                   request>>

\* mkdir ends: an error (500), or the directory, and the first file is fetched
HandlerDirectoryMade ==
    /\ pc = "hMkdir"
    /\ \/ /\ Responded(Response(500, "Failed to extract project"))
          /\ calls' = Settle(calls)
          /\ UNCHANGED <<outputDir, fileIdx>>
       \/ /\ outputDir' = HandlerOutputPath(params)
          /\ fileIdx' = 1
          /\ pc' = "hGetFile"
          /\ outcome' = outcome
          /\ calls' = Issue(Settle(calls), Call("getFile", 1, ""))
    /\ UNCHANGED <<treeVars, propVars, parseVars, repoVars, styleVars, limitVars, genVars, params, files,
                   projectName, outputFiles, totalComponentsExtracted, fileSpec, disk,
                   observed, request>>

\* the end of one iteration of the handler's loop over files
HandlerLoopOn(manifest, total, cs) ==
    /\ outputFiles' = manifest
    /\ totalComponentsExtracted' = total
    /\ LocalsDropped
    /\ IF fileIdx < Len(files)
       THEN /\ fileIdx' = fileIdx + 1
            /\ pc' = "hGetFile"
            /\ outcome' = outcome
            /\ calls' = Issue(cs, Call("getFile", fileIdx + 1, ""))
       ELSE /\ fileIdx' = fileIdx
            /\ IF params.options.generateDocs
               THEN /\ pc' = "hIndex"
                    /\ outcome' = outcome
                    /\ calls' = Issue(cs, Call("writeFile", 0, ""))
               ELSE /\ Responded([t |-> "response", status |-> 200,
                                  body |-> ProjectResult(params, projectName, files, manifest,
                                                         total, outputDir)])
                    /\ calls' = cs

\* getFile ends inside the try of the file: an error or a document that cannot
\* be extracted gives the failed entry, else the loop over frameworks starts
HandlerFileFetched ==
    /\ pc = "hGetFile"
    /\ \E g \in GetFileOutcomes :
          IF ~g.ok
          THEN HandlerLoopOn(PushFailed(outputFiles, files[fileIdx], g.message),
                             totalComponentsExtracted, Settle(calls))
          ELSE \E e \in {extractFileComponents(g.data, params.options.maxComponentsPerFile)} :
               IF e.threw
               THEN HandlerLoopOn(PushFailed(outputFiles, files[fileIdx], e.message),
                                  totalComponentsExtracted, Settle(calls))
               ELSE /\ fileData' = g.data
                    /\ componentsData' = e.componentsData
                    /\ styles' = e.styles
                    /\ EnterGenerateCode
                    /\ pc' = "generate"
                    /\ calls' = Settle(calls)
                    /\ UNCHANGED <<fileSpec, outputFiles, totalComponentsExtracted, fileIdx,
                                   outcome>>
    /\ UNCHANGED <<components, returned, propVars, parseVars, repoVars, maxComponents, limited, params, request, files,
                   projectName, outputDir, disk, observed>>

\* the loop over frameworks is over: fileSpec.generatedCode is set and the
\* file is written
HandlerWriteFileSpec ==
    /\ pc = "generated"
    /\ request.entry = "projectHandler"
    /\ fileSpec' = BuildFileSpec(files[fileIdx], componentsData, styles, generatedCode)
    /\ pc' = "hWrite"
    /\ calls' = Issue(calls, Call("writeFile", fileIdx, ""))
    /\ UNCHANGED <<treeVars, propVars, parseVars, repoVars, styleVars, limitVars, genVars, params, files,
                   projectName, outputDir, outputFiles, totalComponentsExtracted,
                   fileIdx, disk, outcome, observed, request>>

\* writeFile ends inside the try of the file: an error gives the failed
\* entry, else the entry of the file is pushed
HandlerFileWritten ==
    /\ pc = "hWrite"
    /\ \/ /\ HandlerLoopOn(PushFailed(outputFiles, files[fileIdx],
                                      "ENOSPC: no space left on device, write"),
                           totalComponentsExtracted, Settle(calls))
          /\ UNCHANGED disk
       \/ /\ disk' = Assign(disk, HandlerJsonFileName(files[fileIdx]), fileSpec)
          /\ HandlerLoopOn(Append(outputFiles,
                                  SuccessEntry(files[fileIdx], params.frameworks, fileSpec,
                                               HandlerJsonFileName(files[fileIdx]))),
                           totalComponentsExtracted + Len(componentsData.components),
                           Settle(calls))
    /\ UNCHANGED <<components, returned, propVars, parseVars, repoVars, maxComponents, limited, params, request, files,
                   projectName, outputDir, observed>>

\* writeFile of the index ends: an error (500), or the answer
HandlerIndexWritten ==
    /\ pc = "hIndex"
    /\ \/ /\ Responded(Response(500, "Failed to extract project"))
          /\ UNCHANGED disk
       \/ /\ disk' = Assign(disk, "project-index.json",
                            ProjectIndex(params, projectName, files, outputFiles,
                                         totalComponentsExtracted, outputDir))
          /\ Responded([t |-> "response", status |-> 200,
                        body |-> ProjectResult(params, projectName, files, outputFiles,
                                               totalComponentsExtracted, outputDir)])
    /\ calls' = Settle(calls)
    /\ UNCHANGED <<treeVars, propVars, parseVars, repoVars, styleVars, limitVars, genVars, params, files,
                   projectName, outputDir, outputFiles, totalComponentsExtracted,
                   fileIdx, fileSpec, observed, request>>

(***************************************************************************)
(* The extract-design handler (api/v1/extract-design.js).                  *)
(***************************************************************************)
\* a node of the design with one node under it
NodeAsked ==
    [id |-> Str("1:2"), name |-> Str("Card"), type |-> Str("FRAME"),
     children |-> Arr(<<[id |-> Str("1:3"), name |-> Str("Title"), type |-> Str("TEXT")]>>)]

\* what GET /files/:key/nodes?ids=1:2 answers with: the nodes asked for, keyed
\* by id under the member nodes, each as {document: node} (or, as in the
\* fixture of the getNode test, as the node itself)
NodeResponses ==
    {[name |-> Str("File"), nodes |-> [n12 |-> [document |-> NodeAsked]]],
     [nodes |-> [n12 |-> NodeAsked]]}

\* what the awaited getNode can do
GetNodeOutcomes ==
    {[ok |-> FALSE, message |-> "Failed to fetch Figma node: Node not found"]}
    \cup {[ok |-> TRUE, data |-> d] : d \in NodeResponses}

IsDesignRequest(r) ==
    \E fk \in Optional("fileKey", {Str("key0")}) :
    \E fw \in Optional("framework", {Str("react"), Str("svelte")}) :
    \E nd \in Optional("nodeId", {Str("1:2")}) :
    \E env \in Optional("FIGMA_ACCESS_TOKEN", {Str("figd")}) :
       r = [entry |-> "designHandler", body |-> Merge(fk, Merge(fw, nd)), env |-> env]

\* the handler up to the await of getFile: 400, 401, or 500 when the agent
\* cannot be built, or the request for the file
DesignExtract ==
    /\ pc = "request"
    /\ request.entry = "designHandler"
    /\ LET body == request.body IN
       IF ~Truthy(Get(body, "fileKey")) \/ ~Truthy(Get(body, "framework"))
       THEN /\ Responded(Response(400, "Missing required fields"))
            /\ UNCHANGED <<params, calls>>
       ELSE IF body.framework.v \notin ValidFrameworks
       THEN /\ Responded(Response(400, "Invalid framework"))
            /\ UNCHANGED <<params, calls>>
       ELSE IF ~Truthy(Get(request.env, "FIGMA_ACCESS_TOKEN"))
       THEN /\ Responded(Response(401, "Figma access token not configured"))
            /\ UNCHANGED <<params, calls>>
       ELSE \/ /\ Responded(Response(500, "Failed to extract design"))
               /\ UNCHANGED <<params, calls>>
            \/ /\ params' = [fileKey |-> body.fileKey,
                             nodeId |-> Get(body, "nodeId"),
                             frameworks |-> <<body.framework.v>>,
                             options |-> [maxComponents |-> 10]]
               /\ pc' = "dGetFile"
               /\ outcome' = outcome
               /\ calls' = Issue(calls, Call("getFile", 0, ""))
    /\ UNCHANGED <<treeVars, propVars, parseVars, repoVars, styleVars, limitVars, genVars, files, projectName,
                   outputDir, outputFiles, totalComponentsExtracted, fileIdx, fileSpec,
                   disk, observed, request>>

\* getFile ends: an error or a document that cannot be extracted (500), or the
\* components and styles, and the completion call is made; with a nodeId the
\* node is asked for first
DesignFileFetched ==
    /\ pc = "dGetFile"
    /\ \E g \in GetFileOutcomes :
          IF ~g.ok
          THEN /\ Responded(Response(500, "Failed to extract design"))
               /\ calls' = Settle(calls)
               /\ UNCHANGED <<fileData, componentsData, styles>>
          ELSE IF Truthy(params.nodeId)
          THEN /\ fileData' = g.data
               /\ pc' = "dGetNode"
               /\ outcome' = outcome
               /\ calls' = Issue(Settle(calls), Call("getNode", 0, ""))
               /\ UNCHANGED <<componentsData, styles>>
          ELSE \E e \in {extractFileComponents(g.data, params.options.maxComponents)} :
               IF e.threw
               THEN /\ Responded(Response(500, "Failed to extract design"))
                    /\ calls' = Settle(calls)
                    /\ UNCHANGED <<fileData, componentsData, styles>>
               ELSE /\ fileData' = g.data
                    /\ componentsData' = e.componentsData
                    /\ styles' = e.styles
                    /\ pc' = "dCallAI"
                    /\ outcome' = outcome
                    /\ calls' = Issue(Settle(calls),
                                      Call("completion", 0, params.frameworks[1]))
    /\ UNCHANGED <<components, returned, propVars, parseVars, repoVars, maxComponents, limited, genVars, params,
                   files, projectName, outputDir, outputFiles, totalComponentsExtracted,
                   fileIdx, fileSpec, disk, observed, request>>

\* getNode ends: an error (500), or extractComponents(nodeData), the limit and
\* extractStyles(fileData), and the completion call is made
DesignNodeFetched ==
    /\ pc = "dGetNode"
    /\ \E g \in GetNodeOutcomes :
          IF ~g.ok
          THEN /\ Responded(Response(500, "Failed to extract design"))
               /\ calls' = Settle(calls)
               /\ UNCHANGED <<componentsData, styles>>
          ELSE \E e \in {extractFileComponents(g.data, params.options.maxComponents)} :
               IF e.threw
               THEN /\ Responded(Response(500, "Failed to extract design"))
                    /\ calls' = Settle(calls)
                    /\ UNCHANGED <<componentsData, styles>>
               ELSE /\ componentsData' = e.componentsData
                    /\ styles' = extractStyles(fileData)
                    /\ pc' = "dCallAI"
                    /\ outcome' = outcome
                    /\ calls' = Issue(Settle(calls),
                                      Call("completion", 0, params.frameworks[1]))
    /\ UNCHANGED <<treeVars, propVars, parseVars, repoVars, maxComponents, limited, genVars, params,
                   files, projectName, outputDir, outputFiles, totalComponentsExtracted,
                   fileIdx, fileSpec, disk, observed, request>>

\* the completion call ends: an error (500), or the record is saved
DesignGenerated ==
    /\ pc = "dCallAI"
    /\ \E ai \in Completions :
          \E r \in {analyzeAndGenerateCode(ai)} :
             IF r.threw
             THEN /\ Responded(Response(500, "Failed to extract design"))
                  /\ calls' = Settle(calls)
                  /\ UNCHANGED generatedCode
             ELSE /\ generatedCode' = r.code
                  /\ pc' = "dSave"
                  /\ outcome' = outcome
                  /\ calls' = Issue(Settle(calls), Call("writeFile", 0, ""))
    /\ UNCHANGED <<treeVars, propVars, parseVars, repoVars, styleVars, limitVars, fwIdx, attempts, params, files,
                   projectName, outputDir, outputFiles, totalComponentsExtracted, fileIdx,
                   fileSpec, disk, observed, request>>

\* repository.save ends: an error (500), or the answer
DesignSaved ==
    /\ pc = "dSave"
    /\ \/ Responded(Response(500, "Failed to extract design"))
       \/ Responded([t |-> "response", status |-> 200,
                     body |-> [framework |-> params.frameworks[1],
                               fileKey |-> params.fileKey,
                               components |-> IF Has(generatedCode, "components")
                                              THEN generatedCode.components ELSE <<>>,
                               globalStyles |-> IF Has(generatedCode, "globalStyles")
                                                THEN generatedCode.globalStyles ELSE "",
                               notes |-> IF Has(generatedCode, "notes")
                                         THEN generatedCode.notes ELSE "",
                               extractedComponents |-> componentsData.components,
                               styles |-> styles]])
    /\ calls' = Settle(calls)
    /\ UNCHANGED <<treeVars, propVars, parseVars, repoVars, styleVars, limitVars, genVars, params, files,
                   projectName, outputDir, outputFiles, totalComponentsExtracted,
                   fileIdx, fileSpec, disk, observed, request>>

InitRequest ==
    /\ \/ \E e \in {"controller", "projectHandler"} : \E body \in ProjectBodies :
             /\ e = "projectHandler" => Get(OptionsOf(body), "frameworks") # Str("react")
             /\ request = [entry |-> e, body |-> body]
       \/ IsDesignRequest(request)
    /\ pc = "request"
    /\ params = Pending
    /\ files = <<>> /\ projectName = Pending
    /\ outputDir = Null /\ outputFiles = <<>> /\ totalComponentsExtracted = 0
    /\ fileIdx = 0 /\ fileSpec = Pending /\ disk = EmptyBucket /\ outcome = Pending
    /\ observed = <<>>
    /\ calls = <<>>
    /\ TreeIdle /\ PropIdle /\ ParseIdle /\ RepoIdle /\ StyleIdle /\ LimitIdle /\ GenIdle

NextRequest ==
    \/ ControllerExtractProject
    \/ NextProject
    \/ HandlerExtractProject
    \/ HandlerResolved
    \/ HandlerDirectoryMade
    \/ HandlerFileFetched
    \/ HandlerWriteFileSpec
    \/ HandlerFileWritten
    \/ HandlerIndexWritten
    \/ DesignExtract
    \/ DesignFileFetched
    \/ DesignNodeFetched
    \/ DesignGenerated
    \/ DesignSaved

SpecRequest == InitRequest /\ [][NextRequest]_vars

\* C16: a framework value outside {react, vue, angular, html} never reaches
\* code generation: on every entry point no completion call is made for it.
OnlyValidFrameworksGenerated ==
    \A i \in 1..Len(calls) :
       calls[i].op = "completion" => calls[i].framework \in ValidFrameworks

\* the body lacks a token, or lacks fileKey while teamId or projectId is missing
LacksRequired(body) ==
    \/ "figmaToken" \notin DOMAIN body
    \/ "githubToken" \notin DOMAIN body
    \/ /\ "fileKey" \notin DOMAIN body
       /\ "teamId" \notin DOMAIN body \/ "projectId" \notin DOMAIN body

\* C17: a project-extraction request to the controller that lacks figmaToken
\* or githubToken, or lacks fileKey while teamId or projectId is missing, is
\* rejected with a ValidationError, and no remote call is made, no directory
\* is created and no file is written for it.
ControllerRejectsBeforeEffects ==
    request.entry = "controller" /\ LacksRequired(request.body) =>
        /\ pc \in {"request", "failed"}
        /\ pc = "failed" => outcome = Raised("ValidationError", outcome.message)
        /\ calls = <<>>
        /\ outputDir = Null
        /\ disk = EmptyBucket

\* a request with both tokens and a teamId alone has been rejected
ControllerRejectsBeforeEffectsWitness ==
    /\ request.entry = "controller"
    /\ DOMAIN request.body = {"figmaToken", "githubToken", "teamId"}
    /\ pc = "failed"
    /\ outcome.error = "ValidationError"
    /\ calls = <<>>

(***************************************************************************)
(* DesignAnalyzerAgent.parseResponse on every completion text of at most   *)
(* MaxText pieces.                                                         *)
(***************************************************************************)
InitParse ==
    /\ responseText \in {Str(tx) : tx \in Texts}
    /\ parsed = Pending
    /\ TreeIdle /\ PropIdle /\ RepoIdle /\ StyleIdle /\ LimitIdle /\ GenIdle /\ ProjIdle

\* parseResponse(responseText) returns
ParseResponseReturn ==
    /\ responseText # Pending
    /\ parsed = Pending
    /\ parsed' = parseResponse(responseText.v)
    /\ UNCHANGED <<responseText, treeVars, propVars, repoVars, styleVars, limitVars, genVars, projVars>>

NextParse == ParseResponseReturn

SpecParse == InitParse /\ [][NextParse]_vars

\* the {...} spans of a text: from an opening brace with none before it to a
\* closing brace with none behind it
Spans(tx) ==
    {sp \in (1..Len(tx)) \X (1..Len(tx)) :
        /\ sp[1] < sp[2]
        /\ tx[sp[1]] = "{" /\ \A k \in 1..(sp[1] - 1) : tx[k] # "{"
        /\ tx[sp[2]] = "}" /\ \A k \in (sp[2] + 1)..Len(tx) : tx[k] # "}"}

Synthetic(code, notes) ==
    [components   |-> <<[name |-> "GeneratedComponent", code |-> code,
                         styles |-> "", dependencies |-> <<>>]>>,
     globalStyles |-> "",
     notes        |-> notes]

\* C18: parseResponse returns for every text, and what it returns is the parsed
\* object when the text has a {...} span that parses, the synthetic component
\* with the raw text and notes 'Generated code from AI response' when the text
\* has no span, and the same component with notes 'Raw AI response' when the
\* span does not parse; the three outcomes exclude one another.
ParseResponseThreeOutcomes ==
    parsed # Pending =>
        LET tx == responseText.v
            noSpan == Synthetic(tx, "Generated code from AI response")
            badSpan == Synthetic(tx, "Raw AI response")
        IN  /\ Spans(tx) = {} => parsed = noSpan
            /\ \A sp \in Spans(tx) :
                   LET object == JSONParse(SubSeq(tx, sp[1], sp[2]))
                   IN  /\ object.ok => parsed = object.value /\ parsed \notin {noSpan, badSpan}
                       /\ ~object.ok => parsed = badSpan
            /\ noSpan # badSpan
            /\ Cardinality(Spans(tx)) <= 1

\* a text with two objects in it: the span runs from the first opening brace to
\* the last closing brace, does not parse, and the raw text comes back
ParseResponseThreeOutcomesWitness ==
    /\ responseText = Str(<<"{", "c", "}", "{", "}">>)
    /\ parsed = Synthetic(responseText.v, "Raw AI response")

\* C19: every slot of the mapping generateCode builds holds either
\* {error, status: 'failed'} or a value of the CodeArtifact shape: components,
\* a sequence, together with globalStyles and notes.
SlotsHaveArtifactShape ==
    generatedCode # Pending =>
        \A f \in DOMAIN generatedCode :
            \/ IsFailedSlot(generatedCode[f])
            \/ /\ {"components", "globalStyles", "notes"} \subseteq DOMAIN generatedCode[f]
               /\ DOMAIN generatedCode[f].components = 1..Len(generatedCode[f].components)

\* a manifest entry of a file that failed
EntryFailed(entry) == Has(entry, "status") /\ entry.status = "failed"

\* componentsExtracted summed over the successful entries of a manifest
RECURSIVE SumExtracted(_)
SumExtracted(manifest) ==
    IF manifest = <<>> THEN 0
    ELSE LET entry == manifest[Len(manifest)]
             rest == SumExtracted(SubSeq(manifest, 1, Len(manifest) - 1))
         IN  IF EntryFailed(entry) THEN rest ELSE rest + entry.componentsExtracted

\* C20: when extractProject completes, the index it returns has
\* totalComponentsExtracted equal to the sum of componentsExtracted over the
\* successful entries of its manifest, filesProcessed equal to the number of
\* resolved files, and a manifest of that many entries; the index written to
\* project-index.json carries the same numbers.
IndexTotalsAgree ==
    pc = "completed" /\ request.entry = "service" =>
        /\ outcome.totalComponentsExtracted = SumExtracted(outcome.files)
        /\ outcome.filesProcessed = Len(files)
        /\ Len(outcome.files) = Len(files)
        /\ \A i \in 1..Len(files) : outcome.files[i].fileKey = files[i].key
        /\ params.options.generateDocs =>
              /\ disk["project-index.json"].totalComponentsExtracted
                     = outcome.totalComponentsExtracted
              /\ disk["project-index.json"].filesProcessed = outcome.filesProcessed
              /\ disk["project-index.json"].files = outcome.files

\* a project of two files completes: one failed, the other gave components
IndexTotalsAgreeWitness ==
    /\ pc = "completed" /\ request.entry = "service"
    /\ Len(files) = 2
    /\ \E i, j \in 1..2 :
          /\ EntryFailed(outcome.files[i])
          /\ ~EntryFailed(outcome.files[j])
          /\ outcome.files[j].componentsExtracted >= 2
    /\ outcome.totalComponentsExtracted >= 2
    /\ outcome.filesProcessed = 2

\* C21: the frameworks list of the manifest entry of a successfully processed
\* file holds the requested frameworks whose code generation succeeded, and
\* only those, in requested order.
FrameworksListedIffGenerated ==
    \A i \in 1..Len(observed) :
        observed[i].extraction = "ok" =>
            outputFiles[i].frameworks =
                SelectSeq(params.frameworks, LAMBDA f : f \notin observed[i].generationFailed)

\* the calls that write project-index.json
IndexWrites == {i \in 1..Len(calls) : calls[i].op = "writeFile" /\ calls[i].file = 0}

\* C22: the project index is written at most once, only when
\* options.generateDocs is true and only after every file has its manifest
\* entry; when extractProject completes with generateDocs true the index has
\* been written exactly once, with generateDocs false it is never written; in
\* both cases the value returned is the index data with outputDirectory
\* reduced to the base name of the directory.
IndexPersistedOnce ==
    /\ Cardinality(IndexWrites) <= 1
    /\ IndexWrites # {} =>
          /\ params.options.generateDocs
          /\ Len(outputFiles) = Len(files)
          /\ pc \in {"projectIndex", "completed", "failed"}
    /\ "project-index.json" \in DOMAIN disk => IndexWrites # {} /\ pc = "completed"
    /\ pc = "completed" =>
          LET index == ProjectIndex(params, projectName, files, outputFiles,
                                    totalComponentsExtracted, outputDir)
          IN  /\ params.options.generateDocs =>
                    /\ Cardinality(IndexWrites) = 1
                    /\ disk["project-index.json"] = index
              /\ ~params.options.generateDocs => "project-index.json" \notin DOMAIN disk
              /\ DOMAIN outcome = DOMAIN index
              /\ \A f \in DOMAIN index \ {"outputDirectory"} : outcome[f] = index[f]
              /\ index.outputDirectory = outputDir
              /\ outcome.outputDirectory = outputDir.base
              /\ outputDir.dir = "cwd/output"

\* two files were handled and the index was written after them
IndexPersistedOnceWitness ==
    /\ pc = "completed"
    /\ params.options.generateDocs
    /\ Len(files) = 2 /\ Len(outputFiles) = 2
    /\ "project-index.json" \in DOMAIN disk
    /\ Cardinality(IndexWrites) = 1

(***************************************************************************)
(* GeneratedCodeRepository: the records kept in                            *)
(* database/generated-code.json.  Every await of the code is a step of the *)
(* caller, so that the calls of two callers interleave at their awaits.    *)
(***************************************************************************)
MaxRecords == 2    \* records in the store when the calls begin

\* new Date().toISOString() at time n
Time(n) == [t |-> "date", v |-> n]

Missing == [t |-> "missing"]

File(text) == [t |-> "file", text |-> text]

\* JSON.stringify of one record: a member whose value is undefined is left out
StringifyRecord(record) ==
    [f \in {g \in DOMAIN record : record[g] # Undefined} |-> record[f]]

\* JSON.stringify(records, null, 2)
Stringify(records) ==
    [t |-> "json", items |-> [i \in 1..Len(records) |-> StringifyRecord(records[i])]]

\* JSON.parse(data)
Parse(text) == text.items

\* {...a, ...b}
Spread(a, b) == [f \in DOMAIN a \cup DOMAIN b |-> IF f \in DOMAIN b THEN b[f] ELSE a[f]]

\* mutant of pushRecord: the new record goes in front (unshift)
pushRecordFront(records, data, now) ==
    <<Spread(data, [createdAt |-> Time(now)])>> \o records

\* records.push({...data, createdAt: new Date().toISOString()})
pushRecord(records, data, now) ==
    Append(records, Spread(data, [createdAt |-> Time(now)]))

\* records.findIndex((record) => record.id === id)
findIndex(records, id) ==
    IF \E i \in 1..Len(records) : Get(records[i], "id") = id
    THEN CHOOSE i \in 1..Len(records) :
             /\ Get(records[i], "id") = id
             /\ \A j \in 1..(i - 1) : Get(records[j], "id") # id
    ELSE -1

\* mutant of updateRecord: the patch replaces the record
updateRecordReplace(records, index, data, now) ==
    [records EXCEPT ![index] = Spread(data, [updatedAt |-> Time(now)])]

\* records[index] = {...records[index], ...data, updatedAt: new Date().toISOString()}
updateRecord(records, index, data, now) ==
    [records EXCEPT ![index] = Spread(Spread(records[index], data), [updatedAt |-> Time(now)])]

\* records.filter((record) => record.id !== id)
filterRecords(records, id) == SelectSeq(records, LAMBDA record : Get(record, "id") # id)

\* mutant of NothingRemoved: delete writes the store whatever the filter removed
NothingRemovedNever(records, filtered) == FALSE

\* if (records.length === filtered.length)
NothingRemoved(records, filtered) == Len(records) = Len(filtered)

\* if (index === -1)
NotFoundIndex(index) == index = -1

\* throw new Error(`Record with id ${id} not found`)
RecordNotFound(id) == Raised("Error", <<"Record with id ", id, " not found">>)

\* the records the store may hold when the calls begin; two of them share an id
StoredRecords ==
    {[id |-> Num(1), framework |-> Str("react"), createdAt |-> Time(0)],
     [id |-> Num(2), framework |-> Str("vue"), createdAt |-> Time(0)],
     [id |-> Num(1), framework |-> Str("html"), createdAt |-> Time(0)]}

RECURSIVE StoresOfLength(_)
StoresOfLength(n) ==
    IF n = 0 THEN {<<>>}
    ELSE {Append(rs, r) : rs \in StoresOfLength(n - 1), r \in StoredRecords}

\* the store when the calls begin: no file yet, or a file of at most MaxRecords records
Stores ==
    {Missing} \cup {File(Stringify(rs)) : rs \in UNION {StoresOfLength(n) : n \in 0..MaxRecords}}

\* the calls made on the repository
RepositoryCalls ==
    {[kind |-> "save", id |-> Undefined, data |-> d] :
        d \in {[id |-> Num(3), framework |-> Str("react")],
               [id |-> Num(4), framework |-> Str("vue"), nodeId |-> Undefined]}}
    \cup {[kind |-> "update", id |-> i, data |-> d] :
            i \in {Num(1), Num(3)},
            d \in {[framework |-> Str("angular")], [framework |-> Undefined]}}
    \cup {[kind |-> "delete", id |-> i, data |-> NoFields] : i \in {Num(1), Num(3)}}
    \cup {[kind |-> "findAll", id |-> Undefined, data |-> NoFields]}

\* a caller that has just made the call op
Started(op) ==
    [op |-> op, pos |-> "access", records |-> <<>>, text |-> Pending,
     returns |-> Pending, result |-> Pending]

\* a caller that makes no call
NoCall ==
    [op |-> [kind |-> "none", id |-> Undefined, data |-> NoFields], pos |-> "idle",
     records |-> <<>>, text |-> Pending, returns |-> Pending, result |-> Pending]

\* the records findAll gives on a store nobody else touches: initialize makes
\* a missing file a file of no records
Content(st) == IF st = Missing THEN <<>> ELSE Parse(st.text)

othersIdle == TreeIdle /\ PropIdle /\ ParseIdle /\ StyleIdle /\ LimitIdle /\ GenIdle /\ ProjIdle

\* one caller
InitStore ==
    /\ store \in Stores
    /\ clock = 1
    /\ \E op \in RepositoryCalls : client = <<Started(op), NoCall>>
    /\ initially = Content(store)
    /\ othersIdle

\* two callers at once
InitStoreTwo ==
    /\ store \in Stores
    /\ clock = 1
    /\ \E op1, op2 \in RepositoryCalls : client = <<Started(op1), Started(op2)>>
    /\ initially = Content(store)
    /\ othersIdle

notRepo == <<treeVars, propVars, parseVars, styleVars, limitVars, genVars, projVars>>

\* initialize: await fs.access(this.dbPath) ends
RepoAccess(p) ==
    /\ client[p].pos = "access"
    /\ client' = [client EXCEPT ![p].pos = IF store = Missing THEN "mkdir" ELSE "readFile"]
    /\ UNCHANGED <<store, clock, initially, notRepo>>

\* initialize: await fs.mkdir(dir, {recursive: true}) ends
RepoMkdir(p) ==
    /\ client[p].pos = "mkdir"
    /\ client' = [client EXCEPT ![p].pos = "writeEmpty"]
    /\ UNCHANGED <<store, clock, initially, notRepo>>

\* initialize: await fs.writeFile(this.dbPath, JSON.stringify([], null, 2)) ends
RepoWriteEmpty(p) ==
    /\ client[p].pos = "writeEmpty"
    /\ store' = File(Stringify(<<>>))
    /\ client' = [client EXCEPT ![p].pos = "readFile"]
    /\ UNCHANGED <<clock, initially, notRepo>>

\* findAll: await fs.readFile ends and JSON.parse gives the records; the call
\* goes on to its next await, the writeFile, or ends
RepoReadFile(p) ==
    /\ client[p].pos = "readFile"
    /\ LET records == Parse(store.text)
           op == client[p].op
           index == findIndex(records, op.id)
           filtered == filterRecords(records, op.id)
           goOn(changed, returns) ==
               [client EXCEPT ![p].records = changed,
                              ![p].text = Stringify(changed),
                              ![p].returns = returns,
                              ![p].pos = "writeFile"]
           end(result) ==
               [client EXCEPT ![p].records = records, ![p].result = result, ![p].pos = "done"]
       IN  CASE op.kind = "findAll" ->
                    /\ client' = end(Arr(records))
                    /\ clock' = clock
             [] op.kind = "save" ->
                    /\ client' = goOn(pushRecord(records, op.data, clock), op.data)
                    /\ clock' = clock + 1
             [] op.kind = "update" ->
                    IF NotFoundIndex(index)
                    THEN /\ client' = end(RecordNotFound(op.id))
                         /\ clock' = clock
                    ELSE /\ client' = goOn(updateRecord(records, index, op.data, clock),
                                           updateRecord(records, index, op.data, clock)[index])
                         /\ clock' = clock + 1
             [] op.kind = "delete" ->
                    /\ client' = IF NothingRemoved(records, filtered)
                                 THEN end(RecordNotFound(op.id))
                                 ELSE goOn(filtered, Bool(TRUE))
                    /\ clock' = clock
    /\ UNCHANGED <<store, initially, notRepo>>

\* save / update / delete: await fs.writeFile(this.dbPath, JSON.stringify(...)) ends
RepoWriteFile(p) ==
    /\ client[p].pos = "writeFile"
    /\ store' = File(client[p].text)
    /\ client' = [client EXCEPT ![p].result = client[p].returns, ![p].pos = "done"]
    /\ UNCHANGED <<clock, initially, notRepo>>

NextStore ==
    \/ \E p \in DOMAIN client : RepoAccess(p)
    \/ \E p \in DOMAIN client : RepoMkdir(p)
    \/ \E p \in DOMAIN client : RepoWriteEmpty(p)
    \/ \E p \in DOMAIN client : RepoReadFile(p)
    \/ \E p \in DOMAIN client : RepoWriteFile(p)

SpecStore == InitStore /\ [][NextStore]_vars

SpecStoreTwo == InitStoreTwo /\ [][NextStore]_vars

\* C23: when save(record) has returned, the store holds the records it held
\* before, unchanged and in the same order, followed by one new record that
\* has the members of the record given and a createdAt timestamp; save
\* returns the record it was given.
SaveAppends ==
    client[1].op.kind = "save" /\ client[1].pos = "done" =>
        LET now == Content(store)
            data == client[1].op.data
            new == now[Len(now)]
        IN  /\ Len(now) = Len(initially) + 1
            /\ SubSeq(now, 1, Len(initially)) = initially
            /\ "createdAt" \in DOMAIN new /\ new.createdAt.t = "date"
            /\ DOMAIN new \subseteq DOMAIN data \cup {"createdAt"}
            /\ \A f \in DOMAIN data \ {"createdAt"} :
                  data[f] # Undefined => f \in DOMAIN new /\ new[f] = data[f]
            /\ client[1].result = data
            /\ "createdAt" \notin DOMAIN client[1].result

\* a record was saved to a store of two records
SaveAppendsWitness ==
    /\ client[1].op.kind = "save" /\ client[1].pos = "done"
    /\ Len(initially) = 2
    /\ Len(Content(store)) = 3
    /\ Content(store)[3].id = Num(3)

\* the call of caller p names an id that no record of the store has
IdAbsent(p) ==
    /\ client[p].op.kind \in {"update", "delete"}
    /\ \A i \in 1..Len(initially) : initially[i].id # client[p].op.id

IdPresent(p) ==
    /\ client[p].op.kind \in {"update", "delete"}
    /\ \E i \in 1..Len(initially) : initially[i].id = client[p].op.id

\* the position of the first record of the store with the id caller p names
FirstWithId(p) ==
    CHOOSE i \in 1..Len(initially) :
        /\ initially[i].id = client[p].op.id
        /\ \A j \in 1..(i - 1) : initially[j].id # client[p].op.id

\* the positions of the records of the store with another id than caller p names
OtherIds(p) == {i \in 1..Len(initially) : initially[i].id # client[p].op.id}

\* C28: when update(id, patch) has returned, the first record with that id
\* has the members of the patch (a member the patch makes undefined is gone),
\* its other members as they were, createdAt among them, and an updatedAt
\* timestamp; every other record, one of the same id included, is unchanged
\* and where it was.  When delete(id) has returned, the store holds the
\* records of another id, unchanged and in their order, and nothing else.
MutationsTouchOnlyTheirRecord ==
    IdPresent(1) /\ client[1].pos = "done" =>
        LET now == Content(store)
            op == client[1].op
            k == FirstWithId(1)
        IN  IF op.kind = "update"
            THEN /\ Len(now) = Len(initially)
                 /\ \A i \in 1..Len(now) : i # k => now[i] = initially[i]
                 /\ "updatedAt" \in DOMAIN now[k] /\ now[k].updatedAt.t = "date"
                 /\ \A f \in DOMAIN op.data :
                       IF op.data[f] = Undefined THEN f \notin DOMAIN now[k]
                       ELSE f \in DOMAIN now[k] /\ now[k][f] = op.data[f]
                 /\ \A f \in DOMAIN initially[k] \ (DOMAIN op.data \cup {"updatedAt"}) :
                       f \in DOMAIN now[k] /\ now[k][f] = initially[k][f]
                 /\ DOMAIN now[k] \subseteq
                       DOMAIN initially[k] \cup DOMAIN op.data \cup {"updatedAt"}
            ELSE /\ Len(now) = Cardinality(OtherIds(1))
                 /\ \A i \in 1..Len(now) :
                       now[i] = initially[CHOOSE j \in OtherIds(1) :
                                    Cardinality({m \in OtherIds(1) : m <= j}) = i]
                 /\ client[1].result = Bool(TRUE)

\* update(1, {framework: 'angular'}) on a store of two records of id 1: the
\* first has changed, the second has not
MutationsTouchOnlyTheirRecordWitness ==
    /\ IdPresent(1) /\ client[1].pos = "done"
    /\ client[1].op.kind = "update"
    /\ Len(initially) = 2 /\ initially[1].id = Num(1) /\ initially[2].id = Num(1)
    /\ Content(store)[1].framework = Str("angular")
    /\ Content(store)[1].createdAt = Time(0)
    /\ Content(store)[2] = initially[2]

\* both callers have saved and both calls have returned
BothSaved ==
    /\ \A p \in DOMAIN client : client[p].op.kind = "save" /\ client[p].pos = "done"
    /\ client[1].op.data.id # client[2].op.data.id

\* C29: when two save calls on the same store have both returned, the store
\* holds the record of each, and the records it held before.
BothSavesKept ==
    BothSaved =>
        /\ \A p \in DOMAIN client :
              \E i \in 1..Len(Content(store)) : Content(store)[i].id = client[p].op.data.id
        /\ Len(Content(store)) = Len(initially) + 2

\* the list of frameworks a request body asks for: its top-level frameworks,
\* else options.frameworks, else ['react']
FrameworksAsked(body) ==
    IF Has(body, "frameworks") THEN body.frameworks
    ELSE IF Has(OptionsOf(body), "frameworks") THEN OptionsOf(body).frameworks
    ELSE Arr(<<"react">>)

\* C25: the list of frameworks the controller passes to the service is the
\* top-level frameworks of the request body when there is one, otherwise
\* options.frameworks, otherwise ['react'].
ControllerPassesFrameworksAsked ==
    request.entry = "controller" /\ params # Pending =>
        params.frameworks = FrameworksAsked(request.body).items

\* the extract-design request asked for a node and was answered with 200
NodeAnswered ==
    /\ request.entry = "designHandler"
    /\ pc = "responded"
    /\ outcome.status = 200
    /\ Truthy(Get(request.body, "nodeId"))

\* C27: an extract-design request with a nodeId is answered with the
\* components of the subtree of the node asked for: the node has a node under
\* it, so extractedComponents is not empty and holds components of that
\* subtree only.
NodeRequestGivesItsSubtree ==
    NodeAnswered =>
        /\ Len(outcome.body.extractedComponents) >= 1
        /\ \A i \in 1..Len(outcome.body.extractedComponents) :
              outcome.body.extractedComponents[i].id \in {Str("1:2"), Str("1:3")}

\* the positions where the object opened at position i of tx may close: the
\* braces from i to there are balanced
ClosesOf(tx, i) ==
    {j \in (i + 1)..Len(tx) :
        /\ tx[j] = "}"
        /\ Cardinality({k \in i..j : tx[k] = "{"}) = Cardinality({k \in i..j : tx[k] = "}"})}

\* the first brace-delimited object of tx: from its first opening brace to the
\* brace that closes it; <<>> when there is none
FirstObject(tx) ==
    LET opens == {i \in 1..Len(tx) : tx[i] = "{"}
        i == CHOOSE k \in opens : \A m \in opens : k <= m
        j == CHOOSE k \in ClosesOf(tx, i) : \A m \in ClosesOf(tx, i) : k <= m
    IN  IF opens = {} THEN <<>>
        ELSE IF ClosesOf(tx, i) = {} THEN <<>>
        ELSE SubSeq(tx, i, j)

\* an object with the members of an artifact
IsArtifactObject(object) ==
    {"components", "globalStyles", "notes"} \subseteq DOMAIN object

\* C26: whenever the first brace-delimited object of the response text is a
\* well-formed artifact object, parseResponse returns that object, whatever
\* precedes or follows it in the text.
FirstObjectIsParsed ==
    parsed # Pending =>
        LET first == JSONParse(FirstObject(responseText.v))
        IN  first.ok /\ IsArtifactObject(first.value) => parsed = first.value

\* the ids of a list of components, in order
IdsInOrder(list) == [i \in 1..Len(list) |-> list[i].id]

\* C30: on the project-extraction path the components of a file's spec and
\* the components sent to every code generation for that file are the same
\* list: the same ids in the same order, at most maxComponentsPerFile of
\* them, and metadata.totalComponents and the componentsExtracted of the
\* file's manifest entry are its length.
PersistedIsWhatWasSent ==
    /\ pc \in {"saveFileSpec", "hWrite"} =>
          /\ \A i \in 1..Len(attempts) :
                IdsInOrder(attempts[i].components) = IdsInOrder(fileSpec.components)
          /\ Len(fileSpec.components) <= params.options.maxComponentsPerFile
          /\ fileSpec.metadata.totalComponents = Len(fileSpec.components)
    /\ request.entry \in {"service", "controller", "projectHandler"} =>
          \A i \in 1..Len(outputFiles) :
              "jsonPath" \in DOMAIN outputFiles[i] =>
                  outputFiles[i].componentsExtracted
                      = Len(disk[outputFiles[i].jsonPath].components)

====
